---- MODULE Spec2Model ----
(***************************************************************************)
(* A model of bounded-models: the field-handler registry                   *)
(* (src/src/bounded_models/_registry.py), the field handlers (_handlers.py)*)
(* and the field overrides (_overrides.py).                                *)
(*                                                                         *)
(* Numbers are exact rationals [n, d] (d > 0).  A string that the code     *)
(* slices or prefix-matches (a field name, an override key) is a sequence  *)
(* of one-character strings, so "a.b" is <<"a", ".", "b">>.                *)
(***************************************************************************)
EXTENDS Integers, Sequences, FiniteSets, TLC

VARIABLES
    handlers,     \* FieldHandlerRegistry._handlers: the heap list of <<priority, counter, handler>>
    inserted,     \* history: the <<priority, handler>> pairs in the order they were inserted
    pc,           \* "idle": no call in progress; "done": a call has returned or raised
    op,           \* the operation called last
    args,         \* its arguments
    result,       \* its outcome: a value or the exception raised
    call_count    \* the number of calls the default factory has received so far

vars == <<handlers, inserted, pc, op, args, result, call_count>>

(***************************************************************************)
(* Bounds of the model.                                                    *)
(***************************************************************************)
\* unit values are the multiples of 1/UnitSteps in [0, 1]
UnitSteps == 2
\* the longest unit-value vector handed to sample_model
MaxUnits == 3
\* priorities range over 0 .. MaxPriority
MaxPriority == 1
\* the most handlers a registry of SpecRegistry holds
MaxHandlers == 3
\* the fields of the handler-level sampling calls have bounds in -MaxBound .. MaxBound
MaxBound == 2
\* the unit values of the handler-level sampling calls are the k/d, d <= SampleSteps
SampleSteps == 4
\* the longest constructor argument list of SpecRegistry
MaxInitial == 2
\* the most members of a Literal or Enum handed to the handlers' sample
MaxMembers == 3
\* the longest constraint list of a numeric field handed to the handlers
MaxTags == 2
\* successive calls one caller makes with the same default factory
MaxCalls == 2

(***************************************************************************)
(* Exact rational arithmetic (Python int and float values).                *)
(***************************************************************************)
RECURSIVE GCD(_, _)
GCD(a, b) == IF b = 0 THEN a ELSE GCD(b, a % b)

Abs(x) == IF x < 0 THEN -x ELSE x

Rat(n, d) ==
    LET g == GCD(Abs(n), d)
    IN  [n |-> n \div g, d |-> d \div g]

Int2Rat(i) == [n |-> i, d |-> 1]

RAdd(x, y) == Rat(x.n * y.d + y.n * x.d, x.d * y.d)
RSub(x, y) == Rat(x.n * y.d - y.n * x.d, x.d * y.d)
RMul(x, y) == Rat(x.n * y.n, x.d * y.d)
RLeq(x, y) == x.n * y.d <= y.n * x.d

\* math.floor, math.ceil and int() (truncation towards zero)
Floor(x) == x.n \div x.d
Ceil(x) == -((-x.n) \div x.d)
Trunc(x) == IF x.n >= 0 THEN x.n \div x.d ELSE -((-x.n) \div x.d)

Min(a, b) == IF a <= b THEN a ELSE b

\* Python's None where a number is expected (FieldOverride.ge and the like)
None == [n |-> 0, d |-> 0]
IsNone(x) == x.d = 0

(***************************************************************************)
(* Values: what a field can hold and what sampling returns.                *)
(***************************************************************************)
NoName == <<>>

NumV(r) == [t |-> "num", r |-> r, m |-> "", fields |-> <<>>]
LitV(m) == [t |-> "lit", r |-> None, m |-> m, fields |-> <<>>]
\* model(**field_values): an instance, its field values in declaration order
InstV(fs) == [t |-> "model", r |-> None, m |-> "", fields |-> fs]
\* pydantic's PydanticUndefined: the field has no default
Undefined == [t |-> "PydanticUndefined", r |-> None, m |-> "", fields |-> <<>>]
\* no value: the call raised
NoValue == [t |-> "none", r |-> None, m |-> "", fields |-> <<>>]

\* the k-th result of the default factory the tests use (a counting closure)
FactoryResult(k) == NumV(Rat(k, 10))

(***************************************************************************)
(* Field descriptors (pydantic FieldInfo) and model classes.               *)
(* annotation: "int", "float", "str", "Literal", "Enum" or "BaseModel";    *)
(* metadata: the annotated_types bounds, in order; members: the values of  *)
(* a Literal or Enum; fields: model_fields of a nested BaseModel class, a  *)
(* sequence of <<name, FieldInfo>> in declaration order.                   *)
(***************************************************************************)
Bound(tag, v) == [tag |-> tag, v |-> v]

FieldInfo(annotation, metadata, default, default_factory, members, fields) ==
    [annotation |-> annotation, metadata |-> metadata, default |-> default,
     default_factory |-> default_factory, members |-> members, fields |-> fields]

\* FieldInfo.is_required()
IsRequired(fi) == fi.default = Undefined /\ ~fi.default_factory

(***************************************************************************)
(* _overrides.py                                                           *)
(***************************************************************************)
UNSET == [t |-> "UNSET", r |-> None, m |-> "", fields |-> <<>>]

\* FieldOverride(ge, le, gt, lt, default, default_factory); none marks the
\* absent override (Python's None where an override is expected)
FieldOverride(ge, le, gt, lt, default, default_factory) ==
    [none |-> FALSE, ge |-> ge, le |-> le, gt |-> gt, lt |-> lt,
     default |-> default, default_factory |-> default_factory]

NoOverride ==
    [none |-> TRUE, ge |-> None, le |-> None, gt |-> None, lt |-> None,
     default |-> UNSET, default_factory |-> FALSE]

\* __post_init__ if it accepted every combination
PostInitLax(o) == TRUE

\* FieldOverride.__post_init__: both default and default_factory is an error
PostInitOk(o) == ~(o.default # UNSET /\ o.default_factory)

\* has_default if it looked at default alone
HasDefaultValue(o) == o.default # UNSET

has_default(o) == o.default # UNSET \/ o.default_factory

\* get_default if the factory had been called once, when the override was made
GetDefaultStale(o, c) ==
    [val |-> IF o.default_factory THEN FactoryResult(1) ELSE o.default, calls |-> c]

\* FieldOverride.get_default, the factory having been called c times before:
\* the value and the new number of calls
get_default(o, c) ==
    IF o.default_factory
    THEN [val |-> FactoryResult(c + 1), calls |-> c + 1]
    ELSE [val |-> o.default, calls |-> c]

\* merge_field_override if it appended no bound to the metadata
MergeDefaultOnly(fi, o) ==
    [fi EXCEPT !.default = IF o.default # UNSET THEN o.default
                           ELSE IF o.default_factory THEN Undefined ELSE fi.default,
               !.default_factory = o.default = UNSET /\ (o.default_factory \/ fi.default_factory)]

\* merge_field_override if a bound of the override replaced the declared
\* bounds of its kind
MergeReplacing(fi, o) ==
    LET given == (IF IsNone(o.ge) THEN <<>> ELSE <<Bound("Ge", o.ge)>>)
                 \o (IF IsNone(o.le) THEN <<>> ELSE <<Bound("Le", o.le)>>)
                 \o (IF IsNone(o.gt) THEN <<>> ELSE <<Bound("Gt", o.gt)>>)
                 \o (IF IsNone(o.lt) THEN <<>> ELSE <<Bound("Lt", o.lt)>>)
        Kept(b) == \A k \in 1..Len(given) : given[k].tag # b.tag
    IN  [fi EXCEPT !.metadata = SelectSeq(fi.metadata, Kept) \o given,
                   !.default = IF o.default # UNSET THEN o.default
                               ELSE IF o.default_factory THEN Undefined ELSE fi.default,
                   !.default_factory = o.default = UNSET
                                       /\ (o.default_factory \/ fi.default_factory)]

merge_field_override(fi, o) ==
    LET new_metadata ==
            fi.metadata
            \o (IF IsNone(o.ge) THEN <<>> ELSE <<Bound("Ge", o.ge)>>)
            \o (IF IsNone(o.le) THEN <<>> ELSE <<Bound("Le", o.le)>>)
            \o (IF IsNone(o.gt) THEN <<>> ELSE <<Bound("Gt", o.gt)>>)
            \o (IF IsNone(o.lt) THEN <<>> ELSE <<Bound("Lt", o.lt)>>)
        new_default ==
            IF o.default # UNSET THEN o.default
            ELSE IF o.default_factory THEN Undefined
            ELSE fi.default
        new_default_factory ==
            IF o.default # UNSET THEN FALSE
            ELSE IF o.default_factory THEN TRUE
            ELSE fi.default_factory
    IN  \* FieldInfo.from_annotation / FieldInfo(annotation=...) start without
        \* default; the defaults are then set when there are any
        [fi EXCEPT !.metadata = new_metadata,
                   !.default = new_default,
                   !.default_factory = new_default_factory]

\* str.startswith
StartsWith(s, p) == Len(s) >= Len(p) /\ SubSeq(s, 1, Len(p)) = p

\* key[len(prefix_dot):]
Strip(key, k) == SubSeq(key, k + 1, Len(key))

\* extract_nested_overrides if it matched the prefix without the dot
ExtractByPrefix(overrides, prefix) ==
    LET keys == {key \in DOMAIN overrides : StartsWith(key, prefix)}
    IN  [k \in {Strip(key, Len(prefix) + 1) : key \in keys} |->
            overrides[CHOOSE key \in keys : Strip(key, Len(prefix) + 1) = k]]

\* extract_nested_overrides if it kept the keys as they are
ExtractUnstripped(overrides, prefix) ==
    [k \in {key \in DOMAIN overrides : StartsWith(key, prefix \o <<".">>)} |-> overrides[k]]

extract_nested_overrides(overrides, prefix) ==
    LET prefix_dot == prefix \o <<".">>
        keys == {key \in DOMAIN overrides : StartsWith(key, prefix_dot)}
    IN  [k \in {Strip(key, Len(prefix_dot)) : key \in keys} |->
            overrides[prefix_dot \o k]]

\* overrides.get(field_name)
Get(overrides, field_name) ==
    IF field_name \in DOMAIN overrides THEN overrides[field_name] ELSE NoOverride

\* overrides or {}: the empty mapping
NoOverrides == [k \in {} |-> NoOverride]

(***************************************************************************)
(* Outcomes of a call: st is "ok" or the exception raised; n a dimension   *)
(* count or boolean answer; val the sampled value; used the number of unit *)
(* values sample_model took from the caller's iterator; calls the number   *)
(* of calls the default factory has received; name and ann the field_name  *)
(* and annotation an UnboundedFieldError or MissingDefaultError carries.   *)
(***************************************************************************)
Outcome(st, n, val, used, calls, name, ann, msg) ==
    [st |-> st, n |-> n, val |-> val, used |-> used, calls |-> calls,
     name |-> name, ann |-> ann, msg |-> msg]

OkDims(n) == Outcome("ok", n, NoValue, 0, 0, NoName, "", "")
OkBool(b) == Outcome("ok", IF b THEN 1 ELSE 0, NoValue, 0, 0, NoName, "", "")
OkValue(val, used, calls) == Outcome("ok", 0, val, used, calls, NoName, "", "")
Raise(st, name, ann, msg, calls) == Outcome(st, 0, NoValue, 0, calls, name, ann, msg)
NoOutcome == Outcome("none", 0, NoValue, 0, 0, NoName, "", "")

\* _field_name = field_name or "<unknown>"
Unknown == <<"<unknown>">>
NameOr(field_name) == IF field_name = NoName THEN Unknown ELSE field_name

(***************************************************************************)
(* heapq on the handler list.  Entries are <<priority, counter, handler>>; *)
(* positions are 0-based as in heapq, heap[pos + 1] is Python's heap[pos]. *)
(***************************************************************************)
\* the comparison of heap entries by priority alone
LessByPriority(x, y) == x[1] < y[1]

\* tuple comparison: the counters of a registry are pairwise different, so
\* the comparison is decided before it reaches the handlers
Less(x, y) == x[1] < y[1] \/ (x[1] = y[1] /\ x[2] < y[2])

RECURSIVE SiftDownLoop(_, _, _, _)
SiftDownLoop(heap, startpos, pos, newitem) ==
    IF pos > startpos
    THEN LET parentpos == (pos - 1) \div 2
             parent == heap[parentpos + 1]
         IN  IF Less(newitem, parent)
             THEN SiftDownLoop([heap EXCEPT ![pos + 1] = parent], startpos, parentpos, newitem)
             ELSE [heap EXCEPT ![pos + 1] = newitem]
    ELSE [heap EXCEPT ![pos + 1] = newitem]

\* heapq._siftdown
SiftDown(heap, startpos, pos) == SiftDownLoop(heap, startpos, pos, heap[pos + 1])

RECURSIVE SiftUpLoop(_, _, _, _)
SiftUpLoop(heap, startpos, pos, newitem) ==
    LET endpos == Len(heap)
        childpos == 2 * pos + 1
        rightpos == childpos + 1
        chosen == IF rightpos < endpos /\ ~Less(heap[childpos + 1], heap[rightpos + 1])
                  THEN rightpos ELSE childpos
    IN  IF childpos < endpos
        THEN SiftUpLoop([heap EXCEPT ![pos + 1] = heap[chosen + 1]], startpos, chosen, newitem)
        ELSE SiftDown([heap EXCEPT ![pos + 1] = newitem], startpos, pos)

\* heapq._siftup
SiftUp(heap, pos) == SiftUpLoop(heap, pos, pos, heap[pos + 1])

RECURSIVE HeapifyLoop(_, _)
HeapifyLoop(x, i) == IF i < 0 THEN x ELSE HeapifyLoop(SiftUp(x, i), i - 1)

\* heapq.heapify: for i in reversed(range(n // 2)): _siftup(x, i)
Heapify(x) == HeapifyLoop(x, (Len(x) \div 2) - 1)

\* heapq.heappush
HeapPush(heap, item) == SiftDown(Append(heap, item), 0, Len(heap))

\* heapq.heappop: <<the smallest item, the heap without it>>
HeapPop(heap) ==
    LET lastelt == heap[Len(heap)]
        popped == SubSeq(heap, 1, Len(heap) - 1)
    IN  IF popped # <<>>
        THEN <<heap[1], SiftUp([popped EXCEPT ![1] = lastelt], 0)>>
        ELSE <<lastelt, popped>>

(***************************************************************************)
(* FieldHandlerRegistry: construction, register, iter_handlers.            *)
(* A constructor argument is a handler or a (priority, handler) tuple:     *)
(* [explicit, priority, handler].                                          *)
(***************************************************************************)
Plain(handler) == [explicit |-> FALSE, priority |-> 0, handler |-> handler]
WithPriority(priority, handler) == [explicit |-> TRUE, priority |-> priority, handler |-> handler]

assign_default_priority(c) ==
    IF c.explicit THEN <<c.priority, c.handler>> ELSE <<0, c.handler>>

\* FieldHandlerRegistry.__init__
NewRegistry(items) ==
    LET heap == [i \in 1..Len(items) |-> assign_default_priority(items[i])]
        heap_with_counter == [i \in 1..Len(heap) |-> <<heap[i][1], i - 1, heap[i][2]>>]
    IN  Heapify(heap_with_counter)

\* FieldHandlerRegistry.register
RegisterHandler(h, handler, priority) == HeapPush(h, <<priority, Len(h), handler>>)

RECURSIVE IterLoop(_, _)
IterLoop(heap_copy, out) ==
    IF heap_copy = <<>> THEN out
    ELSE LET p == HeapPop(heap_copy)
         IN  IterLoop(p[2], Append(out, p[1][3]))

\* FieldHandlerRegistry.iter_handlers: the handlers in the order yielded
iter_handlers(h) == IterLoop(h, <<>>)

(***************************************************************************)
(* Field handlers (_handlers.py).  A handler is [kind, accepts, bounded,   *)
(* ndims, tag]: the built-in kinds ignore all but kind; a "Custom" handler *)
(* is a user subclass of FieldHandler that handles the annotations in      *)
(* accepts, answers bounded to check_boundedness, ndims to n_dimensions    *)
(* and samples the literal tag.                                            *)
(***************************************************************************)
Handler(kind) == [kind |-> kind, accepts |-> {}, bounded |-> TRUE, ndims |-> 1, tag |-> ""]
CustomHandler(accepts, bounded, ndims, tag) ==
    [kind |-> "Custom", accepts |-> accepts, bounded |-> bounded, ndims |-> ndims, tag |-> tag]

NumericFieldHandler == Handler("Numeric")
LiteralFieldHandler == Handler("Literal")
EnumFieldHandler == Handler("Enum")
BaseModelFieldHandler == Handler("BaseModel")

\* FieldHandlerRegistry.default() and the module's default_registry
DefaultRegistry ==
    NewRegistry(<<Plain(NumericFieldHandler), Plain(LiteralFieldHandler),
                  Plain(BaseModelFieldHandler)>>)

can_handle(hd, fi) ==
    CASE hd.kind = "Numeric" -> fi.annotation \in {"int", "float"}
      [] hd.kind = "Literal" -> fi.annotation = "Literal"
      [] hd.kind = "Enum" -> fi.annotation = "Enum"
      [] hd.kind = "BaseModel" -> fi.annotation = "BaseModel"
      [] OTHER -> fi.annotation \in hd.accepts

HasTag(fi, tags) == \E i \in 1..Len(fi.metadata) : fi.metadata[i].tag \in tags

\* check_boundedness if it counted the inclusive bounds only
NumericCheckInclusive(fi) == HasTag(fi, {"Ge"}) /\ HasTag(fi, {"Le"})

\* NumericFieldHandler.check_boundedness
NumericCheckBoundedness(fi) ==
    LET has_lower == HasTag(fi, {"Ge", "Gt"})
        has_upper == HasTag(fi, {"Le", "Lt"})
    IN  has_lower /\ has_upper

\* the position of the last bound with that tag, 0 when there is none
LastTag(fi, tag) ==
    LET at == {i \in 1..Len(fi.metadata) : fi.metadata[i].tag = tag}
    IN  IF at = {} THEN 0 ELSE CHOOSE i \in at : \A j \in at : i >= j

\* next(m.<b> for m in field_info.metadata if isinstance(m, <Tag>)): the
\* position of the first bound with that tag, 0 when there is none
FirstTag(fi, tag) ==
    LET at == {i \in 1..Len(fi.metadata) : fi.metadata[i].tag = tag}
    IN  IF at = {} THEN 0 ELSE CHOOSE i \in at : \A j \in at : i <= j

\* the integer branch without the guard against unit_value = 1.0
NumericSampleIntUnguarded(lower, upper, unit_value) ==
    Ceil(lower) + Trunc(RMul(unit_value, Int2Rat(Floor(upper) - Ceil(lower) + 1)))

\* the integer branch if it rounded the lower bound down
NumericSampleIntFloored(lower, upper, unit_value) ==
    LET n_options == Floor(upper) - Floor(lower) + 1
    IN  Floor(lower) + Min(Trunc(RMul(unit_value, Int2Rat(n_options))), n_options - 1)

\* the integer branch of NumericFieldHandler.sample
NumericSampleInt(lower, upper, unit_value) ==
    LET lower_bound == Ceil(lower)
        upper_bound == Floor(upper)
        n_options == upper_bound - lower_bound + 1
        selected_index == Min(Trunc(RMul(unit_value, Int2Rat(n_options))), n_options - 1)
    IN  lower_bound + selected_index

\* NumericFieldHandler.sample
NumericSample(unit_values, fi, c) ==
    LET ge == FirstTag(fi, "Ge")
        le == FirstTag(fi, "Le")
    IN  IF ge = 0 \/ le = 0 THEN Raise("StopIteration", NoName, "", "", c)
        ELSE IF Len(unit_values) # 1 THEN Raise("ValueError", NoName, "", "unpack", c)
        ELSE LET lower_bound == fi.metadata[ge].v
                 upper_bound == fi.metadata[le].v
                 unit_value == unit_values[1]
             IN  IF fi.annotation = "int"
                 THEN OkValue(NumV(Int2Rat(NumericSampleInt(lower_bound, upper_bound, unit_value))), 0, c)
                 ELSE OkValue(NumV(RAdd(lower_bound, RMul(RSub(upper_bound, lower_bound), unit_value))), 0, c)

\* LiteralFieldHandler.sample
LiteralSample(unit_values, fi, c) ==
    LET literal_values == fi.members
    IN  IF literal_values = <<>> THEN Raise("ValueError", NoName, "", "empty", c)
        ELSE IF Len(unit_values) # 1 THEN Raise("ValueError", NoName, "", "unpack", c)
        ELSE LET index == Trunc(RMul(unit_values[1], Int2Rat(Len(literal_values))))
                            % Len(literal_values)
             IN  OkValue(LitV(literal_values[index + 1]), 0, c)

\* EnumFieldHandler.sample
EnumSample(unit_values, fi, c) ==
    LET members == fi.members
    IN  IF members = <<>> THEN Raise("ValueError", NoName, "", "empty", c)
        ELSE IF Len(unit_values) # 1 THEN Raise("ValueError", NoName, "", "unpack", c)
        ELSE LET index == Min(Trunc(RMul(unit_values[1], Int2Rat(Len(members)))),
                              Len(members) - 1)
             IN  OkValue(LitV(members[index + 1]), 0, c)

(***************************************************************************)
(* FieldHandlerRegistry: the operations that dispatch on a field.  h is    *)
(* the registry's handler list; a model class is the sequence of its       *)
(* <<name, FieldInfo>> pairs (model_fields, in declaration order).         *)
(*                                                                         *)
(* A call from one registry or handler method to another is written        *)
(* Invoke("method", <<arguments>>): Invoke, defined after the methods,     *)
(* applies the method of that name.                                        *)
(***************************************************************************)
RECURSIVE Invoke(_, _)

\* the outcome o of a call that called no factory, the count being c
At(o, c) == [o EXCEPT !.calls = c]

\* the position in hs of the first handler that can handle fi, 0 if none
FirstCapable(hs, fi) ==
    LET at == {i \in 1..Len(hs) : can_handle(hs[i], fi)}
    IN  IF at = {} THEN 0 ELSE CHOOSE i \in at : \A j \in at : i <= j

\* handler.check_boundedness if BaseModelFieldHandler did not look into the
\* nested class
HandlerCheckShallow(hd, fi, h) ==
    CASE hd.kind = "Numeric" -> NumericCheckBoundedness(fi)
      [] hd.kind = "Literal" -> fi.annotation = "Literal"
      [] hd.kind = "Enum" -> fi.annotation = "Enum"
      [] hd.kind = "BaseModel" -> TRUE
      [] OTHER -> hd.bounded

\* handler.check_boundedness(field_info, registry)
HandlerCheckBoundedness(hd, fi, h) ==
    CASE hd.kind = "Numeric" -> NumericCheckBoundedness(fi)
      [] hd.kind = "Literal" -> fi.annotation = "Literal"
      [] hd.kind = "Enum" -> fi.annotation = "Enum"
      [] hd.kind = "BaseModel" -> Invoke("check_model_boundedness", <<h, fi.fields, TRUE>>)
      [] OTHER -> hd.bounded

\* the for loop of check_field_boundedness, from the i-th handler yielded
RECURSIVE CheckLoop(_, _, _, _, _, _)
CheckLoop(hs, i, fi, h, fail_on_no_handler, found_handler) ==
    IF i > Len(hs) THEN found_handler \/ ~fail_on_no_handler
    ELSE IF can_handle(hs[i], fi)
         THEN IF ~Invoke("handler.check_boundedness", <<hs[i], fi, h>>) THEN FALSE
              ELSE CheckLoop(hs, i + 1, fi, h, fail_on_no_handler, TRUE)
         ELSE CheckLoop(hs, i + 1, fi, h, fail_on_no_handler, found_handler)

\* check_field_boundedness if it failed without a handler whatever the flag
CheckFieldBoundednessStrict(h, fi, fail_on_no_handler) ==
    CheckLoop(iter_handlers(h), 1, fi, h, TRUE, FALSE)

check_field_boundedness(h, fi, fail_on_no_handler) ==
    CheckLoop(iter_handlers(h), 1, fi, h, fail_on_no_handler, FALSE)

check_model_boundedness(h, model, fail_on_no_handler) ==
    \A i \in 1..Len(model) :
        Invoke("check_field_boundedness", <<h, model[i][2], fail_on_no_handler>>)

\* handler.n_dimensions(field_info, registry)
HandlerNDimensions(hd, fi, h) ==
    CASE hd.kind \in {"Numeric", "Literal", "Enum"} -> OkDims(1)
      [] hd.kind = "BaseModel" -> Invoke("model_dimensions", <<h, fi.fields, FALSE, NoOverrides>>)
      [] OTHER -> OkDims(hd.ndims)

\* the for loop of field_dimensions: it ends at the first capable handler hd
\* (none: the ValueError after the loop)
DimensionsOf(found, hd, h, effective_field_info, allow_constants, field_name) ==
    IF ~found
    THEN Raise("ValueError", NoName, effective_field_info.annotation, "no handler", 0)
    ELSE IF Invoke("handler.check_boundedness", <<hd, effective_field_info, h>>)
    THEN Invoke("handler.n_dimensions", <<hd, effective_field_info, h>>)
    ELSE IF ~allow_constants
    THEN Raise("UnboundedFieldError", NameOr(field_name), effective_field_info.annotation, "", 0)
    ELSE IF IsRequired(effective_field_info)
    THEN Raise("MissingDefaultError", NameOr(field_name), effective_field_info.annotation, "", 0)
    ELSE OkDims(0)

\* the first handler yielded that can handle fi: <<found, handler>>
Dispatch(h, fi) ==
    LET hs == iter_handlers(h)
        i == FirstCapable(hs, fi)
    IN  IF i = 0 THEN <<FALSE, NumericFieldHandler>> ELSE <<TRUE, hs[i]>>

field_dimensions(h, fi, allow_constants, field_name, override) ==
    IF ~override.none /\ has_default(override) THEN OkDims(0)
    ELSE LET effective_field_info ==
                 IF override.none THEN fi ELSE merge_field_override(fi, override)
             d == Dispatch(h, effective_field_info)
         IN  DimensionsOf(d[1], d[2], h, effective_field_info, allow_constants, field_name)

\* the dimensions one field adds to the total in model_dimensions
FieldTerm(h, fld, allow_constants, overrides) ==
    LET field_name == fld[1]
        field_info == fld[2]
        override == Get(overrides, field_name)
        nested_overrides == extract_nested_overrides(overrides, field_name)
    IN  IF field_info.annotation = "BaseModel"
        THEN IF DOMAIN nested_overrides # {} \/ ~override.none
             THEN IF ~override.none /\ has_default(override) THEN OkDims(0)
                  ELSE Invoke("model_dimensions",
                              <<h, field_info.fields, allow_constants, nested_overrides>>)
             ELSE Invoke("field_dimensions",
                         <<h, field_info, allow_constants, field_name, NoOverride>>)
        ELSE Invoke("field_dimensions",
                    <<h, field_info, allow_constants, field_name, override>>)

\* the for loop of model_dimensions, from the i-th field
RECURSIVE DimensionsLoop(_, _, _, _, _, _)
DimensionsLoop(h, model, allow_constants, overrides, i, total) ==
    IF i > Len(model) THEN OkDims(total)
    ELSE LET d == FieldTerm(h, model[i], allow_constants, overrides)
         IN  IF d.st # "ok" THEN d
             ELSE DimensionsLoop(h, model, allow_constants, overrides, i + 1, total + d.n)

model_dimensions(h, model, allow_constants, overrides) ==
    DimensionsLoop(h, model, allow_constants, overrides, 1, 0)

\* handler.sample(unit_values, field_info, registry)
HandlerSample(hd, unit_values, fi, h, c) ==
    CASE hd.kind = "Numeric" -> NumericSample(unit_values, fi, c)
      [] hd.kind = "Literal" -> LiteralSample(unit_values, fi, c)
      [] hd.kind = "Enum" -> EnumSample(unit_values, fi, c)
      [] hd.kind = "BaseModel" ->
            Invoke("sample_model", <<h, unit_values, fi.fields, FALSE, NoOverrides, c>>)
      [] OTHER -> OkValue(LitV(hd.tag), 0, c)

\* the for loop of sample_field: it ends at the first capable handler hd
\* (none: the ValueError after the loop)
SampleOf(found, hd, h, unit_values, effective_field_info, allow_constants, field_name, c) ==
    IF ~found
    THEN Raise("ValueError", NoName, effective_field_info.annotation, "no handler", c)
    ELSE IF Invoke("handler.check_boundedness", <<hd, effective_field_info, h>>)
    THEN Invoke("handler.sample", <<hd, unit_values, effective_field_info, h, c>>)
    ELSE IF ~allow_constants
    THEN Raise("UnboundedFieldError", NameOr(field_name), effective_field_info.annotation, "", c)
    ELSE IF IsRequired(effective_field_info)
    THEN Raise("MissingDefaultError", NameOr(field_name), effective_field_info.annotation, "", c)
    ELSE IF effective_field_info.default_factory
    THEN OkValue(FactoryResult(c + 1), 0, c + 1)
    ELSE OkValue(effective_field_info.default, 0, c)

sample_field(h, unit_values, fi, allow_constants, field_name, override, c) ==
    IF ~override.none /\ has_default(override)
    THEN LET g == get_default(override, c) IN OkValue(g.val, 0, g.calls)
    ELSE LET effective_field_info ==
                 IF override.none THEN fi ELSE merge_field_override(fi, override)
             d == Dispatch(h, effective_field_info)
         IN  SampleOf(d[1], d[2], h, unit_values, effective_field_info, allow_constants,
                      field_name, c)

\* take(n, iterator) if it made up for the items the iterator lacks with 0.0
TakePadded(n, it) == [i \in 1..n |-> IF i <= Len(it) THEN it[i] ELSE Int2Rat(0)]

\* more_itertools.take(n, iterator): the items taken
Take(n, it) == SubSeq(it, 1, Min(n, Len(it)))

\* the outcome r of sampling a field from the k unit values taken for it
Taken(r, k) == IF r.st # "ok" THEN r ELSE OkValue(r.val, k, r.calls)

\* the value of a nested-model field, dims being the outcome of
\* model_dimensions on the nested class
NestedValue(dims, h, it, field_info, allow_constants, nested_overrides, c) ==
    IF dims.st # "ok" THEN At(dims, c)
    ELSE Taken(Invoke("sample_model",
                      <<h, Take(dims.n, it), field_info.fields, allow_constants,
                        nested_overrides, c>>),
               Len(Take(dims.n, it)))

\* the value of any other field, dims being the outcome of field_dimensions
PlainValue(dims, h, it, field_info, allow_constants, field_name, override, c) ==
    IF dims.st # "ok" THEN At(dims, c)
    ELSE Taken(Invoke("sample_field",
                      <<h, Take(dims.n, it), field_info, allow_constants, field_name,
                        override, c>>),
               Len(Take(dims.n, it)))

\* one pass of the for loop of sample_model: the field's value, with used the
\* number of unit values taken from the iterator it
FieldValue(h, it, fld, allow_constants, overrides, c) ==
    LET field_name == fld[1]
        field_info == fld[2]
        override == Get(overrides, field_name)
        nested_overrides == extract_nested_overrides(overrides, field_name)
    IN  IF field_info.annotation = "BaseModel"
        THEN IF ~override.none /\ has_default(override)
             THEN LET g == get_default(override, c) IN OkValue(g.val, 0, g.calls)
             ELSE NestedValue(Invoke("model_dimensions",
                                     <<h, field_info.fields, allow_constants, nested_overrides>>),
                              h, it, field_info, allow_constants, nested_overrides, c)
        ELSE PlainValue(Invoke("field_dimensions",
                               <<h, field_info, allow_constants, field_name, override>>),
                        h, it, field_info, allow_constants, field_name, override, c)

\* pydantic's validation of the keyword argument v against the declared field
\* fi, as model(**field_values) runs it: the type, then the declared constraints
Validates(fi, v) ==
    CASE fi.annotation \in {"int", "float"} ->
            /\ v.t = "num"
            /\ fi.annotation = "int" => v.r.d = 1
            /\ \A k \in 1..Len(fi.metadata) :
                    LET m == fi.metadata[k]
                    IN  CASE m.tag = "Ge" -> RLeq(m.v, v.r)
                          [] m.tag = "Le" -> RLeq(v.r, m.v)
                          [] m.tag = "Gt" -> ~RLeq(v.r, m.v)
                          [] m.tag = "Lt" -> ~RLeq(m.v, v.r)
                          [] OTHER -> TRUE
      [] fi.annotation \in {"Literal", "Enum"} ->
            v.t = "lit" /\ \E k \in 1..Len(fi.members) : fi.members[k] = v.m
      [] fi.annotation = "BaseModel" -> v.t = "model"
      [] OTHER -> TRUE

\* model(**field_values): the instance, or pydantic's ValidationError
ModelNew(model, field_values, used, c) ==
    IF \A i \in 1..Len(model) : Validates(model[i][2], field_values[i][2])
    THEN OkValue(InstV(field_values), used, c)
    ELSE Raise("ValidationError", NoName, "", "", c)

\* the for loop of sample_model, from the i-th field; it is what is left of
\* unit_values_iter, used the number of unit values taken from it so far
RECURSIVE SampleLoop(_, _, _, _, _, _, _, _, _)
SampleLoop(h, it, model, allow_constants, overrides, i, field_values, c, used) ==
    IF i > Len(model) THEN ModelNew(model, field_values, used, c)
    ELSE LET r == FieldValue(h, it, model[i], allow_constants, overrides, c)
         IN  IF r.st # "ok" THEN r
             ELSE SampleLoop(h, Strip(it, r.used), model, allow_constants, overrides, i + 1,
                             Append(field_values, <<model[i][1], r.val>>), r.calls,
                             used + r.used)

sample_model(h, unit_values, model, allow_constants, overrides, c) ==
    SampleLoop(h, unit_values, model, allow_constants, overrides, 1, <<>>, c, 0)

Invoke(method, a) ==
    CASE method = "handler.check_boundedness" -> HandlerCheckBoundedness(a[1], a[2], a[3])
      [] method = "handler.n_dimensions" -> HandlerNDimensions(a[1], a[2], a[3])
      [] method = "handler.sample" -> HandlerSample(a[1], a[2], a[3], a[4], a[5])
      [] method = "check_field_boundedness" -> check_field_boundedness(a[1], a[2], a[3])
      [] method = "check_model_boundedness" -> check_model_boundedness(a[1], a[2], a[3])
      [] method = "field_dimensions" -> field_dimensions(a[1], a[2], a[3], a[4], a[5])
      [] method = "model_dimensions" -> model_dimensions(a[1], a[2], a[3], a[4])
      [] method = "sample_field" -> sample_field(a[1], a[2], a[3], a[4], a[5], a[6], a[7])
      [] method = "sample_model" -> sample_model(a[1], a[2], a[3], a[4], a[5], a[6])

(***************************************************************************)
(* The inputs of the calls: fields and model classes after the test-suite  *)
(* classes (InnerModel, OuterModel, DeeplyNestedModel, PartiallyBounded-   *)
(* Config, ModelWithUnbounded), overrides and unit-value vectors.          *)
(***************************************************************************)
A == <<"a">>
B == <<"b">>
Dot(p, q) == p \o <<".">> \o q

Zero == Int2Rat(0)
One == Int2Rat(1)
Ten == Int2Rat(10)
Quarter == Rat(1, 4)

Leaf(annotation, metadata, default, default_factory) ==
    FieldInfo(annotation, metadata, default, default_factory, <<>>, <<>>)

\* rate: float = Field(ge=0.0, le=1.0)
FloatUnit == Leaf("float", <<Bound("Ge", Zero), Bound("Le", One)>>, Undefined, FALSE)
\* value: float
FloatFree == Leaf("float", <<>>, Undefined, FALSE)
\* count: int = 42
IntDefault == Leaf("int", <<>>, NumV(Int2Rat(42)), FALSE)
\* items: int = Field(default_factory=factory)
IntFactory == Leaf("int", <<>>, Undefined, TRUE)
\* n: int = Field(ge=0, le=3)
IntBounded == Leaf("int", <<Bound("Ge", Zero), Bound("Le", Int2Rat(3))>>, Undefined, FALSE)
\* mode: Literal["x", "y", "z"]
Lit3 == FieldInfo("Literal", <<>>, Undefined, FALSE, <<"x", "y", "z">>, <<>>)

\* inner: Inner (default Undefined) or inner: Inner = Inner(...)
Nested(cls, default) == FieldInfo("BaseModel", <<>>, default, FALSE, <<>>, cls)
DefaultInstance == InstV(<<<<A, NumV(Int2Rat(7))>>>>)

Leaves == {FloatUnit, FloatFree, IntDefault, Lit3}

\* classes with leaf fields only
Level1 ==
    {<<<<A, x>>>> : x \in Leaves} \cup {<<<<A, x>>, <<B, FloatUnit>>>> : x \in Leaves}

\* classes whose first field is of a nested class
Over(classes, defaults) ==
    {<<<<A, Nested(c, d)>>>> : c \in classes, d \in defaults}
    \cup {<<<<A, Nested(c, d)>>, <<B, FloatUnit>>>> : c \in classes, d \in defaults}

Level2 == Over(Level1, {Undefined, DefaultInstance})
Level3 == Over({c \in Level2 : c[1][2].default = Undefined}, {Undefined})

Models == Level1 \cup Level2 \cup Level3

\* and the class without fields, alone and as the class of a field
CheckedModels == Models \cup {<<>>, <<<<A, Nested(<<>>, Undefined)>>>>}

\* the dot path to the first leaf of a model class: "a", "a.a", "a.a.a"
RECURSIVE LeafPath(_)
LeafPath(model) ==
    IF model[1][2].annotation = "BaseModel"
    THEN Dot(model[1][1], LeafPath(model[1][2].fields))
    ELSE model[1][1]

\* FieldOverride(ge=0, le=10), FieldOverride(default=0.25),
\* FieldOverride(ge=0, le=10, default=0.25), FieldOverride(default_factory=factory),
\* FieldOverride(default=Inner(a=7))
OvBounds == FieldOverride(Zero, Ten, None, None, UNSET, FALSE)
OvDefault == FieldOverride(None, None, None, None, NumV(Quarter), FALSE)
OvBoundsDefault == FieldOverride(Zero, Ten, None, None, NumV(Quarter), FALSE)
OvFactory == FieldOverride(None, None, None, None, UNSET, TRUE)
OvInstance == FieldOverride(None, None, None, None, DefaultInstance, FALSE)

Overrides == {OvBounds, OvDefault, OvBoundsDefault, OvFactory, OvInstance}

\* the override mappings tried on a model class: on its first field, on the
\* first leaf under it, or both
OverrideMaps(model) ==
    LET keys == {A, LeafPath(model)}
    IN  UNION {[d -> Overrides] : d \in SUBSET keys}

\* the unit values k/steps, and the vectors of 0 .. MaxUnits of them that
\* repeat one unit value or step through the unit values from any start
Units(steps) == {Rat(k, steps) : k \in 0..steps}

UnitVectors ==
    {[i \in 1..k |-> Rat((s + t * (i - 1)) % (UnitSteps + 1), UnitSteps)] :
        k \in 0..MaxUnits, s \in 0..UnitSteps, t \in 0..1}

NoArgs ==
    [model |-> <<>>, field_info |-> FloatFree, allow_constants |-> FALSE,
     overrides |-> NoOverrides, override |-> NoOverride, unit_values |-> <<>>,
     fail_on_no_handler |-> TRUE, field_name |-> NoName,
     handler |-> NumericFieldHandler, omitted |-> {},
     cls |-> [own |-> "unset", inherited |-> FALSE]]

(***************************************************************************)
(* The state machine: a caller that calls the registry's operations one    *)
(* after the other.                                                        *)
(***************************************************************************)
Init ==
    /\ handlers = DefaultRegistry
    /\ inserted = <<<<0, NumericFieldHandler>>, <<0, LiteralFieldHandler>>,
                    <<0, BaseModelFieldHandler>>>>
    /\ pc = "idle"
    /\ op = "none"
    /\ args = NoArgs
    /\ result = NoOutcome
    /\ call_count = 0

\* the call name(a) returns or raises r; r.calls is the number of times the
\* caller's factory has been called when it does
Called(name, a, r) ==
    /\ pc' = "done"
    /\ op' = name
    /\ args' = a
    /\ result' = r
    /\ call_count' = r.calls
    /\ UNCHANGED <<handlers, inserted>>

CallModelDimensions ==
    /\ pc = "idle"
    /\ \E model \in Models, allow_constants \in BOOLEAN :
            \E overrides \in OverrideMaps(model) :
                Called("model_dimensions",
                       [NoArgs EXCEPT !.model = model, !.allow_constants = allow_constants,
                                      !.overrides = overrides],
                       At(Invoke("model_dimensions",
                                 <<handlers, model, allow_constants, overrides>>),
                          call_count))

CallSampleModel ==
    /\ pc = "idle"
    /\ \E model \in Models, allow_constants \in BOOLEAN, unit_values \in UnitVectors :
            \E overrides \in OverrideMaps(model) :
                Called("sample_model",
                       [NoArgs EXCEPT !.model = model, !.allow_constants = allow_constants,
                                      !.overrides = overrides, !.unit_values = unit_values],
                       Invoke("sample_model",
                              <<handlers, unit_values, model, allow_constants, overrides,
                                call_count>>))

CallCheckModelBoundedness ==
    /\ pc = "idle"
    /\ \E model \in CheckedModels, fail_on_no_handler \in BOOLEAN :
            Called("check_model_boundedness",
                   [NoArgs EXCEPT !.model = model, !.fail_on_no_handler = fail_on_no_handler],
                   At(OkBool(Invoke("check_model_boundedness",
                                    <<handlers, model, fail_on_no_handler>>)),
                      call_count))

\* registry.field_dimensions(field_info, allow_constants=..., field_name="a", override=...)
CallFieldDimensions(fields, field_overrides) ==
    /\ pc = "idle"
    /\ \E field_info \in fields, allow_constants \in BOOLEAN, override \in field_overrides :
            Called("field_dimensions",
                   [NoArgs EXCEPT !.field_info = field_info, !.field_name = A,
                                  !.allow_constants = allow_constants,
                                  !.override = override],
                   At(Invoke("field_dimensions",
                             <<handlers, field_info, allow_constants, A, override>>),
                      call_count))

\* registry.sample_field(unit_values, field_info, allow_constants=..., field_name="a", override=...)
CallSampleField(fields, field_overrides, unit_vectors) ==
    /\ pc = "idle"
    /\ \E field_info \in fields, allow_constants \in BOOLEAN, override \in field_overrides,
          unit_values \in unit_vectors :
            Called("sample_field",
                   [NoArgs EXCEPT !.field_info = field_info, !.field_name = A,
                                  !.allow_constants = allow_constants,
                                  !.override = override,
                                  !.unit_values = unit_values],
                   Invoke("sample_field",
                          <<handlers, unit_values, field_info, allow_constants, A, override,
                            call_count>>))

\* registry.check_field_boundedness(field_info, fail_on_no_handler=...)
CallCheckFieldBoundedness(fields) ==
    /\ pc = "idle"
    /\ \E field_info \in fields, fail_on_no_handler \in BOOLEAN :
            Called("check_field_boundedness",
                   [NoArgs EXCEPT !.field_info = field_info,
                                  !.fail_on_no_handler = fail_on_no_handler],
                   At(OkBool(Invoke("check_field_boundedness",
                                    <<handlers, field_info, fail_on_no_handler>>)),
                      call_count))

\* the fields handed to the field operations of the default registry
FieldInputs ==
    Leaves \cup {IntBounded, IntFactory}
    \cup {Nested(c, d) : c \in Level1, d \in {Undefined, DefaultInstance}}

\* x: int = Field(ge=lo, le=hi) and x: float = Field(ge=lo, le=hi)
Between(annotation, lo, hi) ==
    Leaf(annotation, <<Bound("Ge", Int2Rat(lo)), Bound("Le", Int2Rat(hi))>>, Undefined, FALSE)

\* the unit values of the handler-level sampling calls: every k/d, d <= SampleSteps
SampleUnits == UNION {Units(d) : d \in 1..SampleSteps}

\* NumericFieldHandler().sample([u], field_info, registry)
CallNumericSample ==
    /\ pc = "idle"
    /\ \E annotation \in {"int", "float"}, lo \in -MaxBound..MaxBound,
          hi \in -MaxBound..MaxBound, u \in SampleUnits :
            Called("NumericFieldHandler.sample",
                   [NoArgs EXCEPT !.field_info = Between(annotation, lo, hi),
                                  !.unit_values = <<u>>],
                   Invoke("handler.sample",
                          <<NumericFieldHandler, <<u>>, Between(annotation, lo, hi), handlers,
                            call_count>>))

\* the caller drops the outcome and the factory it passed
Return ==
    /\ pc = "done"
    /\ pc' = "idle"
    /\ op' = "none"
    /\ args' = NoArgs
    /\ result' = NoOutcome
    /\ call_count' = 0
    /\ UNCHANGED <<handlers, inserted>>

Next ==
    \/ CallModelDimensions
    \/ CallSampleModel
    \/ CallCheckModelBoundedness
    \/ CallFieldDimensions(FieldInputs, Overrides \cup {NoOverride})
    \/ CallSampleField(FieldInputs, Overrides \cup {NoOverride}, UnitVectors)
    \/ CallCheckFieldBoundedness(FieldInputs)
    \/ CallNumericSample
    \/ Return

\* the default registry and the whole-schema and field operations on it
Spec == Init /\ [][Next]_vars

(***************************************************************************)
(* Registries built by callers: any constructor argument list, register    *)
(* calls, and the operations that dispatch on a field.                     *)
(***************************************************************************)
\* a handler that claims int and dict and reports every field unbounded
CustomUnbounded == CustomHandler({"int", "dict"}, FALSE, 1, "unbounded")
\* a handler that claims int and dict and reports every field bounded
\* (after DictChecker of test_custom_type_checker)
CustomBounded == CustomHandler({"int", "dict"}, TRUE, 1, "bounded")

HandlerPool == {NumericFieldHandler, CustomUnbounded, CustomBounded}

ConstructorItems ==
    {Plain(hd) : hd \in HandlerPool}
    \cup {WithPriority(p, hd) : p \in 0..MaxPriority, hd \in HandlerPool}

ConstructorLists == UNION {[1..k -> ConstructorItems] : k \in 0..MaxInitial}

\* mapping: dict[str, int] = Field(max_length=10)
DictField == Leaf("dict", <<>>, Undefined, FALSE)

RegistryFields == {IntBounded, IntDefault, FloatFree, DictField}

\* the unit values handed to sample_field on those registries
RegistryUnits == {<<>>, <<Quarter>>}

InitRegistry ==
    /\ \E items \in ConstructorLists :
            /\ handlers = NewRegistry(items)
            /\ inserted = [i \in 1..Len(items) |-> assign_default_priority(items[i])]
    /\ pc = "idle"
    /\ op = "none"
    /\ args = NoArgs
    /\ result = NoOutcome
    /\ call_count = 0

\* registry.register(handler, priority), between two calls or while an
\* iteration over the handlers is under way (from another thread, or from the
\* handler the iteration has just yielded)
Register ==
    /\ pc \in {"idle", "iterating"}
    /\ Len(handlers) < MaxHandlers
    /\ \E hd \in HandlerPool, priority \in 0..MaxPriority :
            /\ handlers' = RegisterHandler(handlers, hd, priority)
            /\ inserted' = Append(inserted, <<priority, hd>>)
    /\ UNCHANGED <<pc, op, args, result, call_count>>

NextRegistry ==
    \/ Register
    \/ CallFieldDimensions(RegistryFields, {NoOverride})
    \/ CallSampleField(RegistryFields, {NoOverride}, RegistryUnits)
    \/ CallCheckFieldBoundedness(RegistryFields)
    \/ Return

SpecRegistry == InitRegistry /\ [][NextRegistry]_vars

(***************************************************************************)
(* The generator iter_handlers step by step, as the for loop of a dispatch *)
(* drives it, with register calls in between.  While pc = "iterating"      *)
(* result holds the generator's frame: heap_copy, the handlers yielded so  *)
(* far, and started, the handlers inserted into the registry when the      *)
(* iteration started.                                                      *)
(***************************************************************************)
\* the first next() on the generator: heap_copy = self._handlers.copy()
StartIteration ==
    /\ pc = "idle"
    /\ pc' = "iterating"
    /\ op' = "iter_handlers"
    /\ result' = [st |-> "iterating", heap_copy |-> handlers, yielded |-> <<>>,
                  started |-> inserted]
    /\ UNCHANGED <<handlers, inserted, args, call_count>>

\* the generator if it popped self._handlers itself
NextHandlerShared ==
    /\ pc = "iterating"
    /\ IF handlers = <<>>
       THEN pc' = "done" /\ UNCHANGED <<result, handlers>>
       ELSE /\ result' = [result EXCEPT !.heap_copy = HeapPop(handlers)[2],
                                        !.yielded = Append(@, HeapPop(handlers)[1][3])]
            /\ handlers' = HeapPop(handlers)[2]
            /\ UNCHANGED pc
    /\ UNCHANGED <<inserted, op, args, call_count>>

\* one pass of while heap_copy: heappop(heap_copy) and yield handler, or the
\* end of the generator when heap_copy is empty; self._handlers is not touched
NextHandler ==
    /\ pc = "iterating"
    /\ IF result.heap_copy = <<>>
       THEN pc' = "done" /\ UNCHANGED <<result, handlers>>
       ELSE /\ result' = [result EXCEPT !.heap_copy = HeapPop(result.heap_copy)[2],
                                        !.yielded = Append(@, HeapPop(result.heap_copy)[1][3])]
            /\ handlers' = handlers
            /\ UNCHANGED pc
    /\ UNCHANGED <<inserted, op, args, call_count>>

SpecIteration ==
    InitRegistry
    /\ [][NextRegistry \/ CallCheckModelBoundedness \/ StartIteration \/ NextHandler]_vars

(***************************************************************************)
(* Calls on the handlers themselves, as the tests under tests/checkers     *)
(* make them: handler.can_handle(field_info), and on a field the handler   *)
(* can handle check_boundedness, n_dimensions and sample.                  *)
(***************************************************************************)
\* Literal[...] and class E(Enum) with the given members, in declaration order
LiteralOf(members) == FieldInfo("Literal", <<>>, Undefined, FALSE, members, <<>>)
EnumOf(members) == FieldInfo("Enum", <<>>, Undefined, FALSE, members, <<>>)

\* BoundedChildModelWithManyFields and UnboundedChildModel of test_base_model
BoundedChildModelWithManyFields ==
    <<<<A, Lit3>>, <<B, LiteralOf(<<"a", "b", "c">>)>>, <<<<"c">>, LiteralOf(<<"T", "F">>)>>>>
UnboundedChildModel == <<<<A, Leaf("int", <<>>, Undefined, FALSE)>>>>

\* the fields handed to the handlers: int and float fields with up to MaxTags
\* bounds in any order (a lower bound being 0, an upper bound 3), int fields
\* with ge and le any two halves of -MaxBound .. MaxBound, the field
\* FieldInfo(annotation=int, ge=0, lt=100), fields of other types, Literal
\* and Enum fields of up to MaxMembers members, and fields of nested classes
HandlerFields ==
    LET tag_bounds == {Bound(tag, IF tag \in {"Ge", "Gt"} THEN Zero ELSE Int2Rat(3)) :
                            tag \in {"Ge", "Gt", "Le", "Lt"}}
        metadatas == UNION {[1..k -> tag_bounds] : k \in 0..MaxTags}
        member_lists == {SubSeq(<<"p", "q", "r", "s", "t">>, 1, k) : k \in 1..MaxMembers}
        child_models ==
            Level1 \cup {BoundedChildModelWithManyFields, UnboundedChildModel,
                         <<<<A, Nested(UnboundedChildModel, Undefined)>>, <<B, Lit3>>>>,
                         <<<<A, Nested(BoundedChildModelWithManyFields, Undefined)>>,
                           <<B, FloatUnit>>>>}
        halves == {Rat(k, 2) : k \in (-2 * MaxBound)..(2 * MaxBound)}
    IN  {Leaf(annotation, metadata, Undefined, FALSE) :
            annotation \in {"int", "float"}, metadata \in metadatas}
        \cup {Leaf("int", <<Bound("Ge", lo), Bound("Le", hi)>>, Undefined, FALSE) :
                lo \in halves, hi \in halves}
        \cup {Leaf("int", <<Bound("Ge", Zero), Bound("Lt", Int2Rat(100))>>, Undefined, FALSE),
              IntDefault, DictField, Leaf("str", <<>>, Undefined, FALSE),
              Leaf("bool", <<>>, Undefined, FALSE)}
        \cup {LiteralOf(members) : members \in member_lists}
        \cup {EnumOf(members) : members \in member_lists}
        \cup {Nested(c, Undefined) : c \in child_models}

BuiltinHandlers ==
    {NumericFieldHandler, LiteralFieldHandler, EnumFieldHandler, BaseModelFieldHandler}

\* handler.can_handle(field_info)
CallCanHandle ==
    /\ pc = "idle"
    /\ \E hd \in BuiltinHandlers, field_info \in HandlerFields :
            Called("can_handle",
                   [NoArgs EXCEPT !.field_info = field_info, !.handler = hd],
                   At(OkBool(can_handle(hd, field_info)), call_count))

\* if can_handle: handler.check_boundedness(field_info, registry)
CallHandlerCheckBoundedness ==
    /\ pc = "idle"
    /\ \E hd \in BuiltinHandlers, field_info \in HandlerFields :
            /\ can_handle(hd, field_info)
            /\ Called("check_boundedness",
                      [NoArgs EXCEPT !.field_info = field_info, !.handler = hd],
                      At(OkBool(Invoke("handler.check_boundedness",
                                       <<hd, field_info, handlers>>)),
                         call_count))

\* if can_handle: handler.n_dimensions(field_info, registry)
CallHandlerNDimensions ==
    /\ pc = "idle"
    /\ \E hd \in BuiltinHandlers, field_info \in HandlerFields :
            /\ can_handle(hd, field_info)
            /\ Called("n_dimensions",
                      [NoArgs EXCEPT !.field_info = field_info, !.handler = hd],
                      At(Invoke("handler.n_dimensions", <<hd, field_info, handlers>>),
                         call_count))

\* handler.sample([u], field_info, registry) of the numeric, the literal and
\* the enum handler, on a field the handler can handle and reports bounded
CallHandlerSample ==
    /\ pc = "idle"
    /\ \E hd \in {NumericFieldHandler, LiteralFieldHandler, EnumFieldHandler},
          field_info \in HandlerFields, u \in SampleUnits \cup {Rat(199, 200)} :
            /\ can_handle(hd, field_info)
            /\ HandlerCheckBoundedness(hd, field_info, handlers)
            /\ Called("sample",
                      [NoArgs EXCEPT !.field_info = field_info, !.handler = hd,
                                     !.unit_values = <<u>>],
                      Invoke("handler.sample", <<hd, <<u>>, field_info, handlers, call_count>>))

NextHandlers ==
    \/ CallCanHandle
    \/ CallHandlerCheckBoundedness
    \/ CallHandlerNDimensions
    \/ CallHandlerSample
    \/ Return

\* the default registry and direct calls on the built-in handlers
SpecHandlers == Init /\ [][NextHandlers]_vars

(***************************************************************************)
(* What a caller reaches without a registry of its own: FieldOverride and  *)
(* merge_field_override (_overrides.py), the module-level functions of     *)
(* _registry.py, which go to default_registry, calls that leave a keyword  *)
(* argument to its default, and the definition of a BoundedModel subclass  *)
(* (_model.py).  args.omitted names the keyword arguments a call left out. *)
(***************************************************************************)
\* Python's None as a value (FieldOverride(default=None))
NoneV == [t |-> "NoneType", r |-> None, m |-> "", fields |-> <<>>]

\* FieldOverride(ge=..., le=..., gt=..., lt=..., default=..., default_factory=...):
\* the dataclass __init__ stores the arguments, then __post_init__ raises
\* ValueError when both default and default_factory are given
NewFieldOverride ==
    /\ pc = "idle"
    /\ \E ge \in {None, Zero}, le \in {None, Ten}, gt \in {None, Zero}, lt \in {None, One},
          default \in {UNSET, NoneV, NumV(Quarter)}, default_factory \in BOOLEAN :
            LET o == FieldOverride(ge, le, gt, lt, default, default_factory)
            IN  Called("FieldOverride", [NoArgs EXCEPT !.override = o],
                       IF PostInitOk(o) THEN At(OkBool(TRUE), call_count)
                       ELSE Raise("ValueError", NoName, "", "both", call_count))

\* override.has_default(), on the override just constructed
CallHasDefault ==
    /\ pc = "done" /\ op = "FieldOverride" /\ result.st = "ok"
    /\ Called("has_default", args, At(OkBool(has_default(args.override)), call_count))

\* override.get_default(), on the override just constructed
CallGetDefault ==
    /\ pc = "done" /\ op = "FieldOverride" /\ result.st = "ok"
    /\ LET g == get_default(args.override, call_count)
       IN  Called("get_default", args, OkValue(g.val, 0, g.calls))

\* merge_field_override(field_info, override), with the override just
\* constructed: info is the FieldInfo returned and arg the caller's field_info
\* after the call (new_metadata is a copy, list(field_info.metadata), and no
\* statement assigns to an attribute of field_info)
CallMergeFieldOverride ==
    /\ pc = "done" /\ op = "FieldOverride" /\ result.st = "ok"
    /\ \E field_info \in FieldInputs
                         \cup {Leaf("float", <<Bound("Le", One), Bound("Gt", Zero)>>,
                                    NumV(Quarter), FALSE)} :
            Called("merge_field_override", [args EXCEPT !.field_info = field_info],
                   [st |-> "ok", n |-> 0, val |-> NoValue, used |-> 0, calls |-> call_count,
                    name |-> NoName, ann |-> "", msg |-> "",
                    info |-> merge_field_override(field_info, args.override),
                    arg |-> field_info])

\* __pydantic_init_subclass__ if it looked for __allow_constants__ in the
\* class body alone
InitSubclassOwnFlag(model, cls, h) ==
    IF cls.own = "True"
    THEN IF \E i \in 1..Len(model) :
                /\ ~Invoke("check_field_boundedness", <<h, model[i][2], TRUE>>)
                /\ IsRequired(model[i][2])
         THEN Raise("MissingDefaultError", NoName, "", "", 0)
         ELSE OkDims(0)
    ELSE IF ~Invoke("check_model_boundedness", <<h, model, TRUE>>)
         THEN Raise("ValueError", NoName, "", "not properly bounded", 0)
         ELSE OkDims(0)

\* BoundedModel.__pydantic_init_subclass__ on a class with the fields model;
\* cls.own is the __allow_constants__ the class body sets ("unset": none),
\* cls.inherited the one getattr finds on the parent otherwise;
\* is_field_bounded and is_model_bounded ask the registry h
pydantic_init_subclass(model, cls, h) ==
    IF (IF cls.own = "unset" THEN cls.inherited ELSE cls.own = "True")
    THEN LET failing ==
                 {i \in 1..Len(model) :
                    /\ ~Invoke("check_field_boundedness", <<h, model[i][2], TRUE>>)
                    /\ IsRequired(model[i][2])}
             first == CHOOSE i \in failing : \A j \in failing : i <= j
         IN  IF failing = {} THEN OkDims(0)
             ELSE Raise("MissingDefaultError", model[first][1], model[first][2].annotation,
                        "", 0)
    ELSE IF ~Invoke("check_model_boundedness", <<h, model, TRUE>>)
         THEN Raise("ValueError", NoName, "", "not properly bounded", 0)
         ELSE OkDims(0)

\* class C(Parent): ... for a Parent that is BoundedModel or a subclass of it
CallDefineSubclass ==
    /\ pc = "idle"
    /\ \E model \in CheckedModels
                    \cup {<<<<A, x>>, <<B, FloatUnit>>>> :
                            x \in {DictField, Leaf("dict", <<>>, LitV("d"), FALSE),
                                   IntFactory}},
          own \in {"unset", "True", "False"}, inherited \in BOOLEAN :
            LET cls == [own |-> own, inherited |-> inherited]
            IN  Called("BoundedModel.__pydantic_init_subclass__",
                       [NoArgs EXCEPT !.model = model, !.cls = cls],
                       At(pydantic_init_subclass(model, cls, handlers), call_count))

\* the module-level field_dimensions(field_info[, allow_constants=...]): the
\* keyword defaults to False and field_name is not passed on
CallModuleFieldDimensions ==
    /\ pc = "idle"
    /\ \E field_info \in FieldInputs \cup {DictField}, omit \in BOOLEAN,
          passed \in BOOLEAN, override \in {NoOverride, OvBounds, OvDefault} :
            LET allow_constants == IF omit THEN FALSE ELSE passed
            IN  Called("bounded_models.field_dimensions",
                       [NoArgs EXCEPT !.field_info = field_info,
                                      !.allow_constants = allow_constants,
                                      !.override = override,
                                      !.omitted = IF omit THEN {"allow_constants"} ELSE {}],
                       At(Invoke("field_dimensions",
                                 <<handlers, field_info, allow_constants, NoName, override>>),
                          call_count))

\* the module-level model_dimensions(model_class[, allow_constants=...]): the
\* keyword defaults to False
CallModuleModelDimensions ==
    /\ pc = "idle"
    /\ \E model \in Models, omit \in BOOLEAN, passed \in BOOLEAN :
            LET allow_constants == IF omit THEN FALSE ELSE passed
            IN  Called("bounded_models.model_dimensions",
                       [NoArgs EXCEPT !.model = model, !.allow_constants = allow_constants,
                                      !.omitted = IF omit THEN {"allow_constants"} ELSE {}],
                       At(Invoke("model_dimensions",
                                 <<handlers, model, allow_constants, NoOverrides>>),
                          call_count))

\* registry.sample_model(unit_values, model): allow_constants defaults to
\* False and overrides to None
CallSampleModelDefault ==
    /\ pc = "idle"
    /\ \E model \in Models, unit_values \in UnitVectors :
            Called("sample_model",
                   [NoArgs EXCEPT !.model = model, !.unit_values = unit_values,
                                  !.omitted = {"allow_constants", "overrides"}],
                   Invoke("sample_model",
                          <<handlers, unit_values, model, FALSE, NoOverrides, call_count>>))

\* is_field_bounded(field_info): default_registry.check_field_boundedness
\* (field_info), the keyword fail_on_no_handler left to its default True
CallIsFieldBounded ==
    /\ pc = "idle"
    /\ \E field_info \in HandlerFields :
            Called("is_field_bounded",
                   [NoArgs EXCEPT !.field_info = field_info,
                                  !.omitted = {"fail_on_no_handler"}],
                   At(OkBool(Invoke("check_field_boundedness",
                                    <<handlers, field_info, TRUE>>)),
                      call_count))

\* registry.sample_model(unit_values, cls, allow_constants=cls.__allow_constants__)
\* on the default registry, for a class cls whose definition has just
\* succeeded
CallSampleDefinedModel ==
    /\ pc = "done" /\ op = "BoundedModel.__pydantic_init_subclass__" /\ result.st = "ok"
    /\ \E unit_values \in UnitVectors :
            LET allow_constants ==
                    IF args.cls.own = "unset" THEN args.cls.inherited
                    ELSE args.cls.own = "True"
            IN  Called("default_registry.sample_model",
                       [args EXCEPT !.unit_values = unit_values,
                                    !.allow_constants = allow_constants],
                       Invoke("sample_model",
                              <<DefaultRegistry, unit_values, args.model, allow_constants,
                                NoOverrides, call_count>>))

\* extract_nested_overrides(overrides, prefix) on mappings whose keys are among
\* "a", "a.b", "a.b.c", "ab.x" and "b.a", each with one of two overrides, for
\* the prefixes "a", "b", "ab" and "a.b": mapping is the dict returned
CallExtractNestedOverrides ==
    /\ pc = "idle"
    /\ \E keys \in SUBSET {A, Dot(A, B), Dot(Dot(A, B), <<"c">>), Dot(A \o B, <<"x">>),
                           Dot(B, A)},
          prefix \in {A, B, A \o B, Dot(A, B)} :
            \E overrides \in [keys -> {OvBounds, OvDefault}] :
                Called("extract_nested_overrides",
                       [NoArgs EXCEPT !.overrides = overrides, !.field_name = prefix],
                       [st |-> "ok", n |-> 0, val |-> NoValue, used |-> 0,
                        calls |-> call_count, name |-> NoName, ann |-> "", msg |-> "",
                        mapping |-> extract_nested_overrides(overrides, prefix)])

NextModule ==
    \/ NewFieldOverride
    \/ CallHasDefault
    \/ CallGetDefault
    \/ CallMergeFieldOverride
    \/ CallDefineSubclass
    \/ CallSampleDefinedModel
    \/ CallExtractNestedOverrides
    \/ CallModuleFieldDimensions
    \/ CallModuleModelDimensions
    \/ CallSampleModelDefault
    \/ CallIsFieldBounded
    \/ CallCheckFieldBoundedness(HandlerFields)
    \/ Return

\* the overrides, the module-level functions and BoundedModel
SpecModule == Init /\ [][NextModule]_vars

(***************************************************************************)
(* A caller that keeps its default factory over successive calls of        *)
(* model_dimensions and sample_model on the default registry: call_count   *)
(* carries over from one call to the next.                                 *)
(***************************************************************************)
\* the classes and override mappings of those calls: classes of one or two
\* leaf fields (bounded, unbounded, with a default, or x: float =
\* Field(default_factory=factory)),
\* classes whose field a is of such a class (with or without a default
\* instance), and mappings that put FieldOverride(ge=0, le=1),
\* FieldOverride(ge=0, le=10), FieldOverride(default_factory=factory) or
\* FieldOverride() on the field a or under the dot path a.a; a caller that
\* has made a call goes on with the same class, mapping and allow_constants
RepeatInputs ==
    LET made == Leaf("float", <<>>, Undefined, TRUE)
        leaves == {FloatUnit, FloatFree, IntDefault, made, IntBounded}
        inner == {<<<<A, x>>>> : x \in leaves}
                 \cup {<<<<A, x>>, <<B, y>>>> :
                        x \in {FloatUnit, IntBounded, made}, y \in leaves}
        outer == {<<<<A, Nested(c, d)>>>> : c \in inner, d \in {Undefined, DefaultInstance}}
        given == {FieldOverride(Zero, One, None, None, UNSET, FALSE), OvBounds, OvFactory,
                  FieldOverride(None, None, None, None, UNSET, FALSE)}
        maps == {NoOverrides} \cup UNION {[{key} -> given] : key \in {A, Dot(A, A)}}
    IN  IF pc = "done"
        THEN {[model |-> args.model, overrides |-> args.overrides,
               allow_constants |-> args.allow_constants]}
        ELSE {[model |-> model, overrides |-> overrides, allow_constants |-> flag] :
                model \in inner \cup outer, overrides \in maps, flag \in BOOLEAN}

\* the first call, or one more call with the class, overrides and
\* allow_constants of the call before
RepeatModelDimensions ==
    /\ pc \in {"idle", "done"}
    /\ call_count <= MaxCalls
    /\ \E in \in RepeatInputs :
        LET allow_constants == in.allow_constants IN
            Called("model_dimensions",
                   [NoArgs EXCEPT !.model = in.model, !.allow_constants = allow_constants,
                                  !.overrides = in.overrides],
                   At(Invoke("model_dimensions",
                             <<handlers, in.model, allow_constants, in.overrides>>),
                      call_count))

\* sample_model with up to two unit values, or once more with the unit values
\* of the sample_model call before
RepeatSampleModel ==
    /\ pc \in {"idle", "done"}
    /\ call_count < MaxCalls
    /\ \E in \in RepeatInputs,
          unit_values \in IF pc = "done" /\ op = "sample_model" THEN {args.unit_values}
                          ELSE {v \in UnitVectors : Len(v) <= 2} :
        LET allow_constants == in.allow_constants IN
            Called("sample_model",
                   [NoArgs EXCEPT !.model = in.model, !.allow_constants = allow_constants,
                                  !.overrides = in.overrides, !.unit_values = unit_values],
                   Invoke("sample_model",
                          <<handlers, unit_values, in.model, allow_constants, in.overrides,
                            call_count>>))

SpecRepeat == Init /\ [][RepeatModelDimensions \/ RepeatSampleModel \/ Return]_vars

(***************************************************************************)
(* check_model_boundedness, model_dimensions and sample_model on the       *)
(* default registry, one call of these three at a time.  A call is         *)
(* [method, model, flag, overrides, it, c]: flag is fail_on_no_handler or  *)
(* allow_constants, it the unit values in the iterator, c the factory's    *)
(* calls so far.  While pc = "running" result.stack holds the calls of the *)
(* three methods under way, the innermost last, each with the calls it     *)
(* makes one after the other (calls) and the number of them made (k);      *)
(* result.outcome is what the outermost call will return or raise.         *)
(***************************************************************************)
\* the call is made: on the classes of Spec, on a class whose nested field
\* comes after an unbounded one, and on classes with a dict field at the
\* first, second or third level, with at most one override and unit
\* vectors of 0 .. MaxUnits times 1/2.  Calls(f) is the call f with the calls
\* of the three methods that its loop makes on the classes of its fields,
\* directly or through BaseModelFieldHandler, up to the field at which it
\* raises or returns False.
StartCall ==
    /\ pc = "idle"
    /\ \E model \in Models
                    \cup {<<<<A, FloatFree>>, <<B, Nested(<<<<A, FloatUnit>>>>, Undefined)>>>>,
                          <<<<A, DictField>>, <<B, FloatUnit>>>>,
                          <<<<A, Nested(<<<<A, DictField>>, <<B, FloatUnit>>>>, Undefined)>>>>,
                          <<<<A, Nested(<<<<A, Nested(<<<<A, DictField>>>>, Undefined)>>>>,
                                        Undefined)>>>>},
          method \in {"check_model_boundedness", "model_dimensions", "sample_model"},
          flag \in BOOLEAN, k \in 0..MaxUnits :
            \E overrides \in {o \in OverrideMaps(model) : Cardinality(DOMAIN o) <= 1} :
                LET unit_values == [j \in 1..k |-> Rat(1, 2)]
                    Call(m, cls, fl, ov, it, c) ==
                        [method |-> m, model |-> cls, flag |-> fl, overrides |-> ov,
                         it |-> it, c |-> c]
                    The(s) == CHOOSE x \in s : TRUE
                    RECURSIVE Calls(_), FieldCalls(_, _, _, _)
                    Calls(f) == [call |-> f, calls |-> FieldCalls(f, 1, f.it, f.c), k |-> 0]
                    FieldCalls(f, i, it, c) ==
                        IF i > Len(f.model) THEN <<>>
                        ELSE LET fld == f.model[i]
                                 fi == fld[2]
                                 override == Get(f.overrides, fld[1])
                                 nested_overrides ==
                                     extract_nested_overrides(f.overrides, fld[1])
                                 constant == ~override.none /\ has_default(override)
                                 check == Call("check_model_boundedness", fi.fields, TRUE,
                                               NoOverrides, <<>>, 0)
                             IN  The({LET made ==
                                     IF fi.annotation # "BaseModel" THEN <<>>
                                     ELSE CASE f.method = "check_model_boundedness" ->
                                                \* BaseModelFieldHandler.check_boundedness
                                                <<check>>
                                            [] f.method = "model_dimensions" ->
                                                IF DOMAIN nested_overrides # {}
                                                   \/ ~override.none
                                                THEN IF constant THEN <<>>
                                                     ELSE <<Call("model_dimensions",
                                                                 fi.fields, f.flag,
                                                                 nested_overrides, <<>>, 0)>>
                                                \* field_dimensions: the handler's
                                                \* check_boundedness, then n_dimensions
                                                ELSE <<check>>
                                                     \o (IF bounded
                                                         THEN <<Call("model_dimensions",
                                                                     fi.fields, FALSE,
                                                                     NoOverrides, <<>>, 0)>>
                                                         ELSE <<>>)
                                            [] f.method = "sample_model" ->
                                                IF constant THEN <<>>
                                                ELSE <<Call("model_dimensions",
                                                            fi.fields, f.flag,
                                                            nested_overrides, <<>>, 0)>>
                                                     \o (IF dims.st = "ok"
                                                         THEN <<Call("sample_model",
                                                                     fi.fields, f.flag,
                                                                     nested_overrides,
                                                                     Take(dims.n, it), c)>>
                                                         ELSE <<>>)
                                      IN  [j \in 1..Len(made) |->
                                                The({Calls(g) : g \in {made[j]}})]
                                          \o (IF out.st = "ok"
                                              THEN The({FieldCalls(f, i + 1, rest, calls) :
                                                            rest \in {Strip(it, out.used)},
                                                            calls \in {IF f.method = "sample_model"
                                                                       THEN out.calls ELSE c}})
                                              ELSE <<>>) :
                                      \* the nested class's dimensions and boundedness,
                                      \* and how this pass of the loop ends
                                      dims \in {Invoke("model_dimensions",
                                                       <<handlers, fi.fields, f.flag,
                                                         nested_overrides>>)},
                                      bounded \in {Invoke("check_model_boundedness",
                                                          <<handlers, fi.fields, TRUE>>)},
                                      out \in {CASE f.method = "check_model_boundedness" ->
                                                    IF Invoke("check_field_boundedness",
                                                              <<handlers, fi, f.flag>>)
                                                    THEN OkDims(0)
                                                    ELSE Raise("False", NoName, "", "", 0)
                                                 [] f.method = "model_dimensions" ->
                                                    FieldTerm(handlers, fld, f.flag,
                                                              f.overrides)
                                                 [] f.method = "sample_model" ->
                                                    FieldValue(handlers, it, fld, f.flag,
                                                               f.overrides, c)}})
                    outcome ==
                        CASE method = "check_model_boundedness" ->
                                At(OkBool(Invoke(method, <<handlers, model, flag>>)),
                                   call_count)
                          [] method = "model_dimensions" ->
                                At(Invoke(method, <<handlers, model, flag, overrides>>),
                                   call_count)
                          [] method = "sample_model" ->
                                Invoke(method, <<handlers, unit_values, model, flag,
                                                 overrides, call_count>>)
                IN  /\ method = "check_model_boundedness" => overrides = NoOverrides
                    /\ method # "sample_model" => k = 0
                    /\ op' = method
                    /\ args' = [NoArgs EXCEPT !.model = model, !.overrides = overrides,
                                              !.unit_values = unit_values,
                                              !.allow_constants = flag,
                                              !.fail_on_no_handler = flag]
                    /\ result' = [st |-> "running", outcome |-> outcome,
                                  stack |-> <<Calls(Call(method, model, flag, overrides,
                                                         unit_values, call_count))>>]
    /\ pc' = "running"
    /\ UNCHANGED <<handlers, inserted, call_count>>

\* the step if a call called itself again on its own class
StepCallReentrant ==
    /\ pc = "running"
    /\ result' = [result EXCEPT !.stack = Append(@, @[Len(@)])]
    /\ UNCHANGED <<pc, op, args, handlers, inserted, call_count>>

\* one step of the innermost call: it makes its next call, or it has made
\* them all and returns or raises, the outermost call with its outcome
StepCall ==
    /\ pc = "running"
    /\ LET stack == result.stack
           top == stack[Len(stack)]
       IN  IF top.k < Len(top.calls)
           THEN /\ result' = [result EXCEPT
                                !.stack = Append([stack EXCEPT ![Len(stack)].k = top.k + 1],
                                                 top.calls[top.k + 1])]
                /\ UNCHANGED <<pc, call_count>>
           ELSE IF Len(stack) > 1
           THEN /\ result' = [result EXCEPT !.stack = SubSeq(stack, 1, Len(stack) - 1)]
                /\ UNCHANGED <<pc, call_count>>
           ELSE /\ pc' = "done"
                /\ result' = result.outcome
                /\ call_count' = result.outcome.calls
    /\ UNCHANGED <<op, args, handlers, inserted>>

\* a call under way goes on until it has returned or raised
SpecSteps ==
    Init /\ [][StartCall \/ StepCall \/ Return]_vars /\ WF_vars(StepCall)

(***************************************************************************)
(* Properties.  A call that has returned or raised is a state with         *)
(* pc = "done": op and args are the call, result its outcome.              *)
(***************************************************************************)
\* model_dimensions with the arguments of the sample_model call just made
DimensionsOfCall ==
    Invoke("model_dimensions", <<handlers, args.model, args.allow_constants, args.overrides>>)

\* C1: whenever model_dimensions(schema, allow_constants, overrides) returns
\* n, sample_model with the same schema, allow_constants and overrides and
\* exactly n unit values returns an instance and takes exactly n unit values
\* from the iterator.
SampleModelTakesModelDimensions ==
    (pc = "done" /\ op = "sample_model") =>
        ((DimensionsOfCall.st = "ok" /\ Len(args.unit_values) = DimensionsOfCall.n) =>
            (result.st = "ok" /\ result.used = DimensionsOfCall.n))

\* C2: whenever model_dimensions returns n > 0, sample_model with the same
\* arguments and fewer than n unit values raises: it returns no instance.
FewerUnitValuesFail ==
    (pc = "done" /\ op = "sample_model") =>
        ((DimensionsOfCall.st = "ok" /\ DimensionsOfCall.n > 0
          /\ Len(args.unit_values) < DimensionsOfCall.n) =>
            result.st # "ok")

\* a sample_model call with fewer unit values than the n > 0 counted has
\* raised the ValueError of a handler that got no unit value
FewerUnitValuesFailWitness ==
    /\ pc = "done" /\ op = "sample_model"
    /\ DimensionsOfCall.st = "ok" /\ DimensionsOfCall.n = 2
    /\ Len(args.unit_values) = 1
    /\ result.st = "ValueError"

\* the registry that holds, of the handlers of h, only the first in dispatch
\* order that can handle fi (none when no handler can)
FirstCapableOnly(h, fi) ==
    IF Dispatch(h, fi)[1] THEN NewRegistry(<<Plain(Dispatch(h, fi)[2])>>)
    ELSE NewRegistry(<<>>)

\* C3: check_field_boundedness, field_dimensions and sample_field consult only
\* the first handler, in dispatch order, whose can_handle returns true: the
\* outcome of each is its outcome on the registry without the other handlers.
OnlyFirstCapableHandlerConsulted ==
    pc = "done" =>
        CASE op = "check_field_boundedness" ->
                result = At(OkBool(Invoke("check_field_boundedness",
                                          <<FirstCapableOnly(handlers, args.field_info),
                                            args.field_info, args.fail_on_no_handler>>)), 0)
          [] op = "field_dimensions" ->
                result = Invoke("field_dimensions",
                                <<FirstCapableOnly(handlers, args.field_info), args.field_info,
                                  args.allow_constants, args.field_name, args.override>>)
          [] op = "sample_field" ->
                result = Invoke("sample_field",
                                <<FirstCapableOnly(handlers, args.field_info), args.unit_values,
                                  args.field_info, args.allow_constants, args.field_name,
                                  args.override, 0>>)
          [] OTHER -> TRUE

\* the place in the order of iteration of the i-th handler inserted: after
\* the handlers of lower priority and those of its priority inserted before
Rank(ins, i) ==
    1 + Cardinality({j \in 1..Len(ins) :
                        ins[j][1] < ins[i][1] \/ (ins[j][1] = ins[i][1] /\ j < i)})

\* C4: after any constructor argument list and any register calls,
\* iter_handlers yields every handler inserted exactly once, in ascending
\* priority, and handlers of equal priority in the order of insertion.
IterHandlersInPriorityThenInsertionOrder ==
    /\ Len(iter_handlers(handlers)) = Len(inserted)
    /\ \A i \in 1..Len(inserted) :
            iter_handlers(handlers)[Rank(inserted, i)] = inserted[i][2]

\* three handlers are in the registry, the last of them registered: it has a
\* lower priority than the two before it, which have the same priority and
\* are different handlers
IterHandlersWitness ==
    /\ Len(inserted) = 3
    /\ inserted[1][1] = 1 /\ inserted[2][1] = 1 /\ inserted[3][1] = 0
    /\ inserted[1][2] # inserted[2][2]
    /\ iter_handlers(handlers) = <<inserted[3][2], inserted[1][2], inserted[2][2]>>

\* the handler of h that fi is dispatched to reports fi unbounded
ReportedUnbounded(h, fi) ==
    /\ Dispatch(h, fi)[1]
    /\ ~Invoke("handler.check_boundedness", <<Dispatch(h, fi)[2], fi, h>>)

\* the error an unbounded field without a usable default is refused with
UnboundedOutcome(allow_constants, field_name, fi) ==
    Raise(IF allow_constants THEN "MissingDefaultError" ELSE "UnboundedFieldError",
          field_name, fi.annotation, "", 0)

\* sample_model(unit_values, model) given that its first field is the constant
\* v: v, then the other fields sampled from all of unit_values
WithConstantFirst(h, unit_values, model, allow_constants, overrides, v) ==
    LET rest == Invoke("sample_model",
                       <<h, unit_values, Tail(model), allow_constants, overrides, v.calls>>)
    IN  IF rest.st # "ok" THEN rest
        ELSE ModelNew(model, <<<<model[1][1], v.val>>>> \o rest.val.fields, rest.used,
                      rest.calls)

\* C5: a field reported unbounded and without override has three outcomes in
\* field_dimensions, model_dimensions and sample_model: the unbounded-field
\* error with its name and type when allow_constants is false; the
\* missing-default error with its name and type when allow_constants is true
\* and it is required; otherwise 0 dimensions, and its default as the value
\* sampled whatever the unit values.
UnboundedFieldHasThreeOutcomes ==
    pc = "done" =>
        CASE op = "field_dimensions" /\ args.override.none
             /\ ReportedUnbounded(handlers, args.field_info) ->
                result = IF ~args.allow_constants \/ IsRequired(args.field_info)
                         THEN UnboundedOutcome(args.allow_constants, args.field_name,
                                               args.field_info)
                         ELSE OkDims(0)
          [] op = "model_dimensions" /\ args.overrides = NoOverrides
             /\ ReportedUnbounded(handlers, args.model[1][2]) ->
                result = IF ~args.allow_constants \/ IsRequired(args.model[1][2])
                         THEN UnboundedOutcome(args.allow_constants, args.model[1][1],
                                               args.model[1][2])
                         ELSE Invoke("model_dimensions",
                                     <<handlers, Tail(args.model), TRUE, NoOverrides>>)
          [] op = "sample_model" /\ args.overrides = NoOverrides
             /\ ReportedUnbounded(handlers, args.model[1][2]) ->
                result = IF ~args.allow_constants \/ IsRequired(args.model[1][2])
                         THEN UnboundedOutcome(args.allow_constants, args.model[1][1],
                                               args.model[1][2])
                         ELSE WithConstantFirst(handlers, args.unit_values, args.model, TRUE,
                                                NoOverrides,
                                                OkValue(args.model[1][2].default, 0, 0))
          [] OTHER -> TRUE

\* the override o is there and specifies default=X or a default factory
SpecifiesDefault(o) == ~o.none /\ (o.default # UNSET \/ o.default_factory)

\* C6: a field, scalar or of a nested class, whose direct override has a
\* default or a default factory adds 0 to model_dimensions, and sample_model
\* gives it exactly that default (or the factory's result) and no unit value,
\* whatever allow_constants, the unit values, the field's bounds and the
\* dot-path overrides under the field.
DefaultOverrideMakesConstant ==
    (pc = "done" /\ SpecifiesDefault(Get(args.overrides, A))) =>
        CASE op = "model_dimensions" ->
                result = Invoke("model_dimensions",
                                <<handlers, Tail(args.model), args.allow_constants,
                                  args.overrides>>)
          [] op = "sample_model" ->
                result = WithConstantFirst(handlers, args.unit_values, args.model,
                                           args.allow_constants, args.overrides,
                                           get_default(args.overrides[A], 0))
          [] OTHER -> TRUE

\* sample_model, allow_constants false, has returned an instance whose first
\* field, of a nested class with an unbounded field, is the default of its
\* direct override, a dot-path override under the field being present too;
\* the one unit value went to the second field
DefaultOverrideWitness ==
    /\ pc = "done" /\ op = "sample_model" /\ ~args.allow_constants
    /\ Len(args.model) = 2
    /\ args.model[1][2].annotation = "BaseModel"
    /\ ~Invoke("check_field_boundedness", <<handlers, args.model[1][2], TRUE>>)
    /\ DOMAIN args.overrides = {A, Dot(A, A)}
    /\ args.overrides[A] = OvInstance
    /\ args.unit_values = <<One>>
    /\ result = OkValue(InstV(<<<<A, DefaultInstance>>, <<B, NumV(One)>>>>), 1, 0)

\* the first leaf field of a model class, found through the nested classes of
\* its first field; the class with that field declared as fi; the value of
\* that field in an instance; the number of leaf fields of a class
RECURSIVE LeafField(_)
LeafField(model) ==
    IF model[1][2].annotation = "BaseModel" THEN LeafField(model[1][2].fields)
    ELSE model[1][2]

RECURSIVE WithLeaf(_, _)
WithLeaf(model, fi) ==
    IF model = <<>> THEN model
    ELSE IF model[1][2].annotation = "BaseModel"
    THEN [model EXCEPT ![1][2].fields = WithLeaf(model[1][2].fields, fi)]
    ELSE [model EXCEPT ![1][2] = fi]

RECURSIVE LeafValue(_)
LeafValue(v) == IF v.t = "model" THEN LeafValue(v.fields[1][2]) ELSE v

RECURSIVE CountLeaves(_)
CountLeaves(model) ==
    IF model = <<>> THEN 0
    ELSE CountLeaves(Tail(model))
         + (IF model[1][2].annotation = "BaseModel" THEN CountLeaves(model[1][2].fields)
            ELSE 1)

\* fi is a numeric field without a lower or without an upper bound
UnboundedNumeric(fi) ==
    fi.annotation \in {"int", "float"} /\ ~NumericCheckBoundedness(fi)

\* the override o is there and supplies both ge and le
SuppliesBounds(o) == ~o.none /\ ~IsNone(o.ge) /\ ~IsNone(o.le)

\* the unit value u decoded with the bounds of the override o
DecodedWith(annotation, o, u) ==
    IF annotation = "int" THEN Int2Rat(o.ge.n + Min(Floor(RMul(u, Int2Rat(o.le.n - o.ge.n + 1))),
                                                    o.le.n - o.ge.n))
    ELSE RAdd(o.ge, RMul(RSub(o.le, o.ge), u))

\* a model_dimensions or sample_model call on a class whose first field is of
\* a nested class, with an override that supplies ge and le under the dot
\* path of the first leaf below it, an unbounded numeric field; the other
\* leaves are bounded
DotPathBounds ==
    /\ pc = "done" /\ op \in {"model_dimensions", "sample_model"}
    /\ args.model[1][2].annotation = "BaseModel"
    /\ UnboundedNumeric(LeafField(args.model))
    /\ SuppliesBounds(Get(args.overrides, LeafPath(args.model)))
    /\ Invoke("check_model_boundedness", <<handlers, WithLeaf(args.model, FloatUnit), TRUE>>)

\* the leaf counts as one dimension, and sample_model decodes the unit value
\* at its position, the first, with the bounds of the override
DotPathLeafSampled ==
    CASE op = "model_dimensions" -> result = OkDims(CountLeaves(args.model))
      [] op = "sample_model" ->
            Len(args.unit_values) = CountLeaves(args.model) =>
                /\ result.st = "ok"
                /\ result.used = CountLeaves(args.model)
                /\ LeafValue(result.val)
                     = NumV(DecodedWith(LeafField(args.model).annotation,
                                        args.overrides[LeafPath(args.model)],
                                        args.unit_values[1]))
      [] OTHER -> TRUE

BoundsOverrideOutcome(strict) ==
    (pc = "done" /\ ~args.allow_constants) =>
        CASE op = "field_dimensions" /\ UnboundedNumeric(args.field_info) ->
                IF SuppliesBounds(args.override) /\ (strict => ~SpecifiesDefault(args.override))
                THEN /\ Invoke("check_field_boundedness",
                               <<handlers, merge_field_override(args.field_info, args.override),
                                 TRUE>>)
                     /\ result = OkDims(1)
                ELSE args.override.none =>
                        result = Raise("UnboundedFieldError", args.field_name,
                                       args.field_info.annotation, "", 0)
          [] op = "model_dimensions" /\ UnboundedNumeric(args.model[1][2]) ->
                IF SuppliesBounds(Get(args.overrides, A))
                   /\ (strict => ~SpecifiesDefault(Get(args.overrides, A)))
                THEN /\ result.st = "ok"
                     /\ result.n = 1 + Invoke("model_dimensions",
                                               <<handlers, Tail(args.model), FALSE,
                                                 args.overrides>>).n
                ELSE Get(args.overrides, A).none =>
                        result = Raise("UnboundedFieldError", A, args.model[1][2].annotation,
                                       "", 0)
          [] OTHER -> TRUE

\* C8 as stated: an override that supplies both ge and le makes an unbounded
\* numeric field bounded and 1 dimension with allow_constants false.
BoundsOverrideMakesBounded == BoundsOverrideOutcome(FALSE)

\* C8, amended: an override that supplies both ge and le, and neither a
\* default nor a default factory, makes an unbounded numeric field bounded
\* and 1 dimension with allow_constants false; the field without override
\* still raises UnboundedFieldError.
BoundsOnlyOverrideMakesBounded == BoundsOverrideOutcome(TRUE)

\* field_dimensions of value: float with the override ge=0, le=10 and
\* allow_constants false has returned 1
BoundsOverrideWitness ==
    /\ pc = "done" /\ op = "field_dimensions" /\ ~args.allow_constants
    /\ args.field_info = FloatFree
    /\ args.override = OvBounds
    /\ result = OkDims(1)

\* every field of the class is bounded: a numeric field has a lower and an
\* upper bound, a field of a nested class has every field bounded
RECURSIVE EveryFieldBounded(_)
EveryFieldBounded(model) ==
    \A i \in 1..Len(model) :
        CASE model[i][2].annotation = "BaseModel" -> EveryFieldBounded(model[i][2].fields)
          [] model[i][2].annotation = "Literal" -> TRUE
          [] OTHER -> /\ \E k \in 1..Len(model[i][2].metadata) :
                            model[i][2].metadata[k].tag \in {"Ge", "Gt"}
                      /\ \E k \in 1..Len(model[i][2].metadata) :
                            model[i][2].metadata[k].tag \in {"Le", "Lt"}

\* C9: a field of a nested class is bounded iff every field of the class is,
\* recursively; check_model_boundedness is the conjunction over the fields
\* (true for the class without fields); making one leaf at any depth
\* unbounded turns a true answer into false.
NestedBoundednessPropagates ==
    pc = "done" =>
        CASE op = "check_model_boundedness" ->
                /\ result.n = (IF EveryFieldBounded(args.model) THEN 1 ELSE 0)
                /\ (result.n = 1 /\ WithLeaf(args.model, FloatFree) # args.model) =>
                        ~Invoke("check_model_boundedness",
                                <<handlers, WithLeaf(args.model, FloatFree),
                                  args.fail_on_no_handler>>)
          [] op = "check_field_boundedness" /\ args.field_info.annotation = "BaseModel" ->
                result.n = (IF EveryFieldBounded(args.field_info.fields) THEN 1 ELSE 0)
          [] OTHER -> TRUE

\* check_model_boundedness has returned true for a class three levels deep
\* whose leaf at the third level is bounded
NestedBoundednessWitness ==
    /\ pc = "done" /\ op = "check_model_boundedness"
    /\ args.model # <<>>
    /\ args.model[1][2].annotation = "BaseModel"
    /\ args.model[1][2].fields # <<>>
    /\ args.model[1][2].fields[1][2].annotation = "BaseModel"
    /\ LeafField(args.model) = FloatUnit
    /\ result = OkBool(TRUE)

\* a NumericFieldHandler.sample call on an int field with Ge lo and Le hi
IntSampleCall ==
    /\ pc = "done" /\ op = "NumericFieldHandler.sample"
    /\ args.field_info.annotation = "int"
    /\ args.field_info.metadata[1].v.n <= args.field_info.metadata[2].v.n

\* C10: on an int field with inclusive bounds lo <= hi and a unit value u,
\* NumericFieldHandler.sample returns lo + min(floor(u * (hi - lo + 1)),
\* hi - lo): an integer of lo .. hi, lo for u = 0 and hi for u = 1.
IntegerSampleInRange ==
    IntSampleCall =>
        LET lo == args.field_info.metadata[1].v.n
            hi == args.field_info.metadata[2].v.n
            u == args.unit_values[1]
        IN  /\ result = OkValue(NumV([n |-> lo + Min((u.n * (hi - lo + 1)) \div u.d, hi - lo),
                                      d |-> 1]), 0, 0)
            /\ result.val.r.n \in lo..hi
            /\ u.n = 0 => result.val.r.n = lo
            /\ u.n = u.d => result.val.r.n = hi

\* the unit value 1.0 has been sampled on an int field of more than one
\* value: the result is hi
IntegerSampleWitness ==
    /\ IntSampleCall
    /\ args.unit_values = <<One>>
    /\ args.field_info.metadata[1].v.n < args.field_info.metadata[2].v.n
    /\ result.val = NumV(args.field_info.metadata[2].v)

\* a sample call on the literal or the enum handler has returned or raised
MemberSampleCall ==
    /\ pc = "done" /\ op = "sample"
    /\ args.handler \in {LiteralFieldHandler, EnumFieldHandler}

\* C11: on a Literal or Enum of n >= 1 members and a unit value u of [0, 1],
\* the literal handler and the enum handler both return
\* members[min(floor(u * n), n - 1)]: the first member for u = 0.0 and the
\* last member for u = 1.0.
MemberSampledAtFlooredIndex ==
    MemberSampleCall =>
        LET members == args.field_info.members
            n == Len(members)
            u == args.unit_values[1]
        IN  /\ result.st = "ok"
            /\ result.val = LitV(members[Min((u.n * n) \div u.d, n - 1) + 1])
            /\ u.n = 0 => result.val = LitV(members[1])
            /\ u.n = u.d => result.val = LitV(members[n])

\* a sample call on the numeric handler, on a field that is bounded and has
\* an exclusive bound (gt or lt)
ExclusiveSampleCall ==
    /\ pc = "done" /\ op = "sample" /\ args.handler = NumericFieldHandler
    /\ \E k \in 1..Len(args.field_info.metadata) :
            args.field_info.metadata[k].tag \in {"Gt", "Lt"}

\* C12: a numeric field that is bounded through an exclusive bound (gt, lt)
\* can be sampled: NumericFieldHandler.sample returns a number; on the int
\* field with ge=0, lt=100 the unit value 0.995 yields 99.
ExclusiveBoundsAreSampled ==
    ExclusiveSampleCall =>
        /\ result.st = "ok"
        /\ result.val.t = "num"
        /\ (/\ args.field_info.annotation = "int"
            /\ args.field_info.metadata = <<Bound("Ge", Zero), Bound("Lt", Int2Rat(100))>>
            /\ args.unit_values = <<Rat(199, 200)>>) => result.val = NumV(Int2Rat(99))

\* a call on the numeric handler has returned
NumericHandlerCall(name) ==
    pc = "done" /\ op = name /\ args.handler = NumericFieldHandler

\* the constraint list of fi has a bound with one of the tags
Declares(fi, tags) == \E k \in 1..Len(fi.metadata) : fi.metadata[k].tag \in tags

\* C13: the numeric handler handles exactly the fields declared int or float;
\* it reports such a field bounded iff the constraint list has a lower bound
\* (ge or gt) and an upper bound (le or lt), so not with a lower bound alone,
\* an upper bound alone or no bound; its dimension count is always 1.
NumericHandlerBoundedness ==
    /\ NumericHandlerCall("can_handle") =>
            (result.n = 1 <=> args.field_info.annotation \in {"int", "float"})
    /\ NumericHandlerCall("check_boundedness") =>
            /\ result.n = 1 <=> (/\ Declares(args.field_info, {"Ge", "Gt"})
                                 /\ Declares(args.field_info, {"Le", "Lt"}))
            /\ Len(args.field_info.metadata) = 0 => result.n = 0
            /\ ~Declares(args.field_info, {"Le", "Lt"}) => result.n = 0
            /\ ~Declares(args.field_info, {"Ge", "Gt"}) => result.n = 0
    /\ NumericHandlerCall("n_dimensions") => result = OkDims(1)

\* check_boundedness has answered true on a field whose only bounds are a gt
\* and an lt
NumericHandlerWitness ==
    /\ NumericHandlerCall("check_boundedness")
    /\ args.field_info.annotation = "float"
    /\ Declares(args.field_info, {"Gt"}) /\ Declares(args.field_info, {"Lt"})
    /\ ~Declares(args.field_info, {"Ge", "Le"})
    /\ result.n = 1

\* the dimension counts of the fields of a class added up, whatever their
\* bounds: one per field that is not of a nested class
RECURSIVE RawDimensions(_)
RawDimensions(model) ==
    IF model = <<>> THEN 0
    ELSE (IF model[1][2].annotation = "BaseModel" THEN RawDimensions(model[1][2].fields)
          ELSE 1)
         + RawDimensions(Tail(model))

\* C18: BaseModelFieldHandler.n_dimensions on a field of a nested class
\* returns the sum of the dimension counts of the fields of the class,
\* recursively, bounded or not: 3 for the class with three Literal fields,
\* 1 (and no error) for the class whose only field is an unbounded int.
NestedDimensionsAreRawSum ==
    (pc = "done" /\ op = "n_dimensions" /\ args.handler = BaseModelFieldHandler) =>
        /\ result.st = "ok"
        /\ result.n = RawDimensions(args.field_info.fields)
        /\ args.field_info.fields = BoundedChildModelWithManyFields => result.n = 3
        /\ args.field_info.fields = UnboundedChildModel => result.n = 1

\* no handler registered in h can handle fi
NoCapableHandler(h, fi) == \A i \in 1..Len(h) : ~can_handle(h[i][3], fi)

\* C14: when no registered handler can handle the field,
\* check_field_boundedness returns true with fail_on_no_handler=False and
\* false with fail_on_no_handler=True; a call that does not pass the flag
\* (is_field_bounded makes one) gets the failure answer false.
NoHandlerPolicy ==
    (/\ pc = "done" /\ op \in {"check_field_boundedness", "is_field_bounded"}
     /\ NoCapableHandler(handlers, args.field_info)) =>
        /\ result.st = "ok"
        /\ IF "fail_on_no_handler" \in args.omitted THEN result.n = 0
           ELSE result.n = (IF args.fail_on_no_handler THEN 0 ELSE 1)

\* a dict field, which no handler of the registry handles, has been reported
\* bounded under fail_on_no_handler=False
NoHandlerPolicyWitness ==
    /\ pc = "done" /\ op = "check_field_boundedness"
    /\ args.field_info = DictField
    /\ NoCapableHandler(handlers, args.field_info)
    /\ ~args.fail_on_no_handler
    /\ result.n = 1

\* a FieldOverride object exists: the constructor has returned it, and a
\* method may have been called on it since
OverrideExists ==
    /\ pc = "done"
    /\ \/ op = "FieldOverride" /\ result.st = "ok"
       \/ op \in {"has_default", "get_default", "merge_field_override"}

\* C15: FieldOverride(...) with both default and default_factory raises
\* ValueError, so an override that exists has at most one of them;
\* has_default() is true iff default or default_factory was supplied, a
\* default of None included, and false for an override with bounds only.
OverrideHasAtMostOneDefault ==
    /\ (pc = "done" /\ op = "FieldOverride") =>
            IF args.override.default # UNSET /\ args.override.default_factory
            THEN result.st = "ValueError"
            ELSE result.st = "ok"
    /\ OverrideExists => ~(args.override.default # UNSET /\ args.override.default_factory)
    /\ (pc = "done" /\ op = "has_default") =>
            /\ result.n = 1 <=> (args.override.default # UNSET \/ args.override.default_factory)
            /\ args.override.default = NoneV => result.n = 1
            /\ (args.override.default = UNSET /\ ~args.override.default_factory) => result.n = 0

\* has_default() has answered true on FieldOverride(default=None)
OverrideDefaultNoneWitness ==
    /\ pc = "done" /\ op = "has_default"
    /\ args.override.default = NoneV
    /\ IsNone(args.override.ge) /\ IsNone(args.override.le)
    /\ result.n = 1

\* C16: get_default() returns the factory's result when there is a default
\* factory, else the stored default, and fails with an error when the
\* override has neither (has_default() is false).
GetDefaultFailsWithoutDefault ==
    (pc = "done" /\ op = "get_default") =>
        IF args.override.default_factory
        THEN result.st = "ok" /\ result.val = FactoryResult(1) /\ result.calls = 1
        ELSE IF args.override.default # UNSET
        THEN result.st = "ok" /\ result.val = args.override.default
        ELSE result.st # "ok"

\* the bounds an override supplies, in the order ge, le, gt, lt
Supplied(o) ==
    LET IsGiven(b) == ~IsNone(b.v)
    IN  SelectSeq(<<Bound("Ge", o.ge), Bound("Le", o.le), Bound("Gt", o.gt), Bound("Lt", o.lt)>>,
                  IsGiven)

\* C17: merge_field_override returns a new descriptor and leaves the one it
\* was given as it was; the new constraint list is the declared list in its
\* order followed by one bound per bound the override supplies, in the order
\* ge, le, gt, lt: no declared bound is removed or moved; the declared type
\* stays.
MergeIsAdditive ==
    (pc = "done" /\ op = "merge_field_override") =>
        /\ result.arg = args.field_info
        /\ result.info.annotation = args.field_info.annotation
        /\ Len(result.info.metadata) >= Len(args.field_info.metadata)
        /\ SubSeq(result.info.metadata, 1, Len(args.field_info.metadata))
                = args.field_info.metadata
        /\ SubSeq(result.info.metadata, Len(args.field_info.metadata) + 1,
                  Len(result.info.metadata)) = Supplied(args.override)

\* an override with ge and lt has been merged into a field that declares an
\* le and a gt: the result has all four, the declared ones first
MergeIsAdditiveWitness ==
    /\ pc = "done" /\ op = "merge_field_override"
    /\ args.field_info.metadata = <<Bound("Le", One), Bound("Gt", Zero)>>
    /\ result.info.metadata = <<Bound("Le", One), Bound("Gt", Zero),
                                Bound("Ge", Zero), Bound("Lt", One)>>

\* the definition of a BoundedModel subclass has returned or raised
SubclassDefined == pc = "done" /\ op = "BoundedModel.__pydantic_init_subclass__"

\* the i-th field of the class being defined is not bounded: a numeric field
\* without a lower or an upper bound, a field of a nested class with such a
\* field, or a field of a type without a handler
FieldUnbounded(i) == ~EveryFieldBounded(<<args.model[i]>>)

\* C19: defining a BoundedModel subclass with __allow_constants__ false (the
\* default) raises ValueError iff some field is not bounded; with
\* __allow_constants__ true, set in the class body or inherited, it raises
\* MissingDefaultError iff some field is unbounded and required, and
\* accepts unbounded fields that have a default.
SubclassValidation ==
    SubclassDefined =>
        LET lenient == \/ args.cls.own = "True"
                       \/ args.cls.own = "unset" /\ args.cls.inherited
        IN  IF lenient
            THEN IF \E i \in 1..Len(args.model) :
                        /\ FieldUnbounded(i)
                        /\ args.model[i][2].default = Undefined
                        /\ ~args.model[i][2].default_factory
                 THEN result.st = "MissingDefaultError"
                 ELSE result.st = "ok"
            ELSE IF \E i \in 1..Len(args.model) : FieldUnbounded(i)
                 THEN result.st = "ValueError"
                 ELSE result.st = "ok"

\* a class that inherits __allow_constants__ = True and has an unbounded
\* field with a default has been accepted
SubclassValidationWitness ==
    /\ SubclassDefined
    /\ args.cls = [own |-> "unset", inherited |-> TRUE]
    /\ args.model = <<<<A, IntDefault>>, <<B, FloatUnit>>>>
    /\ result.st = "ok"

\* the fields of a class without nested classes that are bounded
BoundedFields(model) == {i \in 1..Len(model) : EveryFieldBounded(<<model[i]>>)}

\* C20: without an allow_constants argument, the module-level
\* field_dimensions returns 0 for an unbounded field that has a default, the
\* module-level model_dimensions counts the bounded fields only, and
\* sample_model yields the default of such a field and raises
\* MissingDefaultError for an unbounded field without a default.
OmittedFlagAllowsConstants ==
    (pc = "done" /\ "allow_constants" \in args.omitted) =>
        /\ (/\ op = "bounded_models.field_dimensions"
            /\ args.override.none
            /\ args.field_info \in {IntDefault, IntFactory}) => result = OkDims(0)
        /\ (/\ op = "bounded_models.model_dimensions"
            /\ args.model \in Level1
            /\ \A i \in 1..Len(args.model) :
                    i \in BoundedFields(args.model) \/ ~IsRequired(args.model[i][2]))
                => (result.st = "ok" /\ result.n = Cardinality(BoundedFields(args.model)))
        /\ (/\ op = "sample_model"
            /\ args.model \in Level1
            /\ 1 \notin BoundedFields(args.model)) =>
                IF IsRequired(args.model[1][2])
                THEN result.st = "MissingDefaultError"
                ELSE Len(args.unit_values) >= Cardinality(BoundedFields(args.model))
                        => (/\ result.st = "ok"
                            /\ result.val.fields[1][2] = args.model[1][2].default)

\* a sample call of the numeric handler on an int field whose constraint list
\* is ge=lo, le=hi
InclusiveIntSampleCall ==
    /\ pc = "done" /\ op = "sample" /\ args.handler = NumericFieldHandler
    /\ args.field_info.annotation = "int"
    /\ Len(args.field_info.metadata) = 2
    /\ args.field_info.metadata[1].tag = "Ge" /\ args.field_info.metadata[2].tag = "Le"

\* the sampled integer lies within the declared bounds
SampledWithinBounds ==
    /\ result.st = "ok" /\ result.val.t = "num" /\ result.val.r.d = 1
    /\ RLeq(args.field_info.metadata[1].v, result.val.r)
    /\ RLeq(result.val.r, args.field_info.metadata[2].v)

\* C29 as stated: on an int field with ge=lo and le=hi, integer or fractional
\* and in any order, every unit value yields an integer v with lo <= v <= hi,
\* also when [lo, hi] holds no integer or lo > hi.
IntSampleAlwaysWithinBounds == InclusiveIntSampleCall => SampledWithinBounds

\* C29 amended: the same, for the fields whose interval [lo, hi] holds an
\* integer (ceil(lo) <= floor(hi)).
IntSampleWithinNonEmptyBounds ==
    (/\ InclusiveIntSampleCall
     /\ Ceil(args.field_info.metadata[1].v) <= Floor(args.field_info.metadata[2].v))
        => SampledWithinBounds

\* the unit value 0 has been sampled on the int field with ge=0.5, le=1.5:
\* the result is 1
IntSampleFractionalWitness ==
    /\ InclusiveIntSampleCall
    /\ args.field_info.metadata[1].v = Rat(1, 2) /\ args.field_info.metadata[2].v = Rat(3, 2)
    /\ args.unit_values = <<Zero>>
    /\ result.val = NumV(One)

\* C22: extract_nested_overrides(overrides, p) returns exactly the entries
\* whose key is p, a dot and a remainder, keyed by that remainder (kept whole
\* when it has several segments) with the same override; the key p itself and
\* keys whose first segment only begins with p are left out.
ExtractKeepsEntriesUnderPrefix ==
    (pc = "done" /\ op = "extract_nested_overrides") =>
        LET p == args.field_name
        IN  /\ \A k \in DOMAIN result.mapping :
                    /\ Dot(p, k) \in DOMAIN args.overrides
                    /\ result.mapping[k] = args.overrides[Dot(p, k)]
            /\ \A key \in DOMAIN args.overrides :
                    \A j \in 0..Len(key) :
                        key = Dot(p, SubSeq(key, j + 1, Len(key)))
                            => SubSeq(key, j + 1, Len(key)) \in DOMAIN result.mapping

\* the mapping with the keys "a", "a.b", "a.b.c" and "ab.x" has been
\* extracted for the prefix "a": the keys returned are "b" and "b.c"
ExtractWitness ==
    /\ pc = "done" /\ op = "extract_nested_overrides"
    /\ args.field_name = A
    /\ DOMAIN args.overrides = {A, Dot(A, B), Dot(Dot(A, B), <<"c">>), Dot(A \o B, <<"x">>)}
    /\ DOMAIN result.mapping = {B, Dot(B, <<"c">>)}
    /\ args.overrides[Dot(A, B)] = OvBounds /\ result.mapping[B] = OvBounds
    /\ args.overrides[Dot(Dot(A, B), <<"c">>)] = OvDefault
    /\ result.mapping[Dot(B, <<"c">>)] = OvDefault

\* C30: a class that passed BoundedModel's validation at its definition can
\* be handed to the default registry's model_dimensions and sample_model with
\* the class's allow_constants: model_dimensions returns a count, and
\* sample_model returns an instance when given that many unit values; also
\* for a lenient class with a defaulted field of a type without a handler.
DefinedClassCanBeSampled ==
    (pc = "done" /\ op = "default_registry.sample_model") =>
        LET dims == Invoke("model_dimensions",
                           <<DefaultRegistry, args.model, args.allow_constants, NoOverrides>>)
        IN  /\ dims.st = "ok"
            /\ Len(args.unit_values) = dims.n => result.st = "ok"

\* the values an instance holds in its constant fields whose value comes from
\* a default factory, in field order: the fields with an override that has a
\* factory, and the unbounded fields with a factory of their own that no
\* override gives a default or bounds; vals is the instance's field values
RECURSIVE FactoryValues(_, _, _)
FactoryValues(model, overrides, vals) ==
    IF model = <<>> THEN <<>>
    ELSE LET fi == model[1][2]
             o == Get(overrides, model[1][1])
             here == IF o.default_factory THEN <<vals[1][2]>>
                     ELSE IF o.default # UNSET THEN <<>>
                     ELSE IF fi.annotation = "BaseModel"
                     THEN FactoryValues(fi.fields,
                                        extract_nested_overrides(overrides, model[1][1]),
                                        vals[1][2].fields)
                     ELSE IF fi.default_factory /\ ~Declares(fi, {"Ge", "Gt"})
                             /\ ~SuppliesBounds(o)
                     THEN <<vals[1][2]>>
                     ELSE <<>>
         IN  here \o FactoryValues(Tail(model), overrides, Tail(vals))

NestedPathsAgree ==
    (/\ pc = "done" /\ op = "model_dimensions"
     /\ args.model[1][2].annotation = "BaseModel"
     /\ DOMAIN args.overrides = {Dot(A, A)}
     /\ ~SpecifiesDefault(args.overrides[Dot(A, A)])
     /\ SuppliesBounds(args.overrides[Dot(A, A)])
            => (/\ Declares(args.model[1][2].fields[1][2], {"Ge"})
                /\ Declares(args.model[1][2].fields[1][2], {"Le"})))
        => LET handled == Invoke("model_dimensions",
                                 <<handlers, args.model, args.allow_constants, NoOverrides>>)
           IN  /\ result.st = handled.st
               /\ result.st = "ok" => result.n = handled.n

\* C28: when a numeric field declares ge and le and its override supplies
\* other values for ge and le, the merged descriptor holds the declared
\* bounds followed by the override's, and sampling decodes the unit value with
\* the declared ones: the override neither narrows nor widens the range.
DeclaredBoundsWinOverOverride ==
    (/\ pc = "done" /\ op = "sample_model"
     /\ Len(args.model) = 1 /\ Len(args.unit_values) = 1
     /\ args.model[1][2] \in {FloatUnit, IntBounded}
     /\ SuppliesBounds(Get(args.overrides, A))) =>
        LET fi == args.model[1][2]
            o == args.overrides[A]
            u == args.unit_values[1]
            ge == fi.metadata[1].v
            le == fi.metadata[2].v
        IN  /\ merge_field_override(fi, o).metadata
                    = fi.metadata \o <<Bound("Ge", o.ge), Bound("Le", o.le)>>
            /\ result.st = "ok"
            /\ result.val.fields[1][2].r
                    = (IF fi.annotation = "int"
                       THEN Int2Rat(ge.n + Min(Floor(RMul(u, Int2Rat(le.n - ge.n + 1))),
                                               le.n - ge.n))
                       ELSE RAdd(ge, RMul(RSub(le, ge), u)))

\* n: int = Field(ge=0, le=3) with the override FieldOverride(ge=0, le=1) has
\* been sampled at 1.0: the value is 3, outside the override's range
DeclaredBoundsWinWitness ==
    /\ pc = "done" /\ op = "sample_model"
    /\ args.model = <<<<A, IntBounded>>>>
    /\ DOMAIN args.overrides = {A}
    /\ args.overrides[A] = FieldOverride(Zero, One, None, None, UNSET, FALSE)
    /\ args.unit_values = <<One>>
    /\ result.st = "ok"
    /\ result.val = InstV(<<<<A, NumV(Int2Rat(3))>>>>)

IterationYieldsSnapshot ==
    (op = "iter_handlers" /\ pc \in {"iterating", "done"}) =>
        /\ Len(result.yielded) <= Len(result.started)
        /\ pc = "done" => Len(result.yielded) = Len(result.started)
        /\ \A i \in 1..Len(result.started) :
                Rank(result.started, i) <= Len(result.yielded)
                    => result.yielded[Rank(result.started, i)] = result.started[i][2]

\* an iteration over two handlers has ended; a third handler, of a lower
\* priority than both, was registered after the first was yielded, and the
\* iteration has yielded the two
IterationWithRegisterWitness ==
    /\ pc = "done" /\ op = "iter_handlers"
    /\ Len(result.started) = 2 /\ Len(inserted) = 3
    /\ inserted[3][1] < result.started[1][1] /\ inserted[3][1] < result.started[2][1]
    /\ Len(result.yielded) = 2
    /\ iter_handlers(handlers)[1] = inserted[3][2]

\* the number of levels of a model class: 1 when no field is of a nested
\* class, else 1 more than the deepest class of its fields
RECURSIVE NestingDepth(_)
NestingDepth(model) ==
    LET deeper == {NestingDepth(model[i][2].fields) :
                        i \in {j \in 1..Len(model) : model[j][2].annotation = "BaseModel"}}
    IN  IF deeper = {} THEN 1 ELSE 1 + CHOOSE d \in deeper : \A e \in deeper : e <= d

\* C24: on every class and override mapping a call of check_model_boundedness,
\* model_dimensions or sample_model comes to its end (returns or raises), and
\* the calls of the three methods under way at any time are no more than the
\* class has levels of nesting.
CallsEndWithinNestingDepth ==
    /\ [](pc = "running" => Len(result.stack) <= NestingDepth(args.model))
    /\ (pc = "running" ~> pc = "done")

\* sample_model on a class of three levels with an override under the dot
\* path a.a.a is sampling the innermost class: three calls are under way
ThreeCallsDeepWitness ==
    /\ pc = "running" /\ op = "sample_model"
    /\ NestingDepth(args.model) = 3
    /\ DOMAIN args.overrides = {Dot(A, Dot(A, A))}
    /\ Len(result.stack) = 3
    /\ \A k \in 1..3 : result.stack[k].call.method = "sample_model"

\* what check_model_boundedness returns when the policy fail_on_no_handler
\* governs the fields of the nested classes as it governs those of the class
RECURSIVE BoundedUnderPolicy(_, _)
BoundedUnderPolicy(model, fail_on_no_handler) ==
    \A i \in 1..Len(model) :
        LET fi == model[i][2]
        IN  IF fi.annotation = "BaseModel"
            THEN BoundedUnderPolicy(fi.fields, fail_on_no_handler)
            ELSE Invoke("check_field_boundedness", <<handlers, fi, fail_on_no_handler>>)

\* C27: the fail_on_no_handler policy given to check_model_boundedness applies
\* at every level of nesting: with fail_on_no_handler=False a field of a type
\* no handler claims counts as bounded inside a nested class as well, so the
\* result is the same at whatever level that field stands.
PolicyAppliesAtEveryDepth ==
    (pc = "done" /\ op = "check_model_boundedness")
        => (result.n = 1) = BoundedUnderPolicy(args.model, args.fail_on_no_handler)

====
